---------------------------- MODULE Spec2Model ----------------------------
(***************************************************************************)
(* Diet Manager: the food catalog (FoodDatabase), the day log (LogManager, *)
(* LogEntry) and the command history (AddFoodCommand, RemoveFoodCommand,   *)
(* the undo and redo stacks), modelled from the C++ sources.               *)
(*                                                                         *)
(* Servings and calories are doubles in the code; the model uses small     *)
(* integers, on which the code's += and * are exact, and NaN.  A           *)
(* time_point is a                                                         *)
(* pair of a calendar day and a time of day.  The meal type of a food entry *)
(* takes part in no decision of the code modelled and is left out.         *)
(***************************************************************************)
EXTENDS Integers, Sequences, FiniteSets, TLC

(***************************************************************************)
(* Bounds of the model.                                                    *)
(***************************************************************************)
MaxServ == 1
MaxTotal == 3
MaxHist == 2
MaxAllHist == 1

(***************************************************************************)
(* The double values of the model are integers and NaN, the value that     *)
(* std::stod returns for the argument "nan"; NaN is encoded as an integer  *)
(* far outside the range of the numbers of the model.  A comparison with   *)
(* NaN is false and a sum or product with NaN is NaN.                      *)
(***************************************************************************)
NaN == 0 - 1000

(* x <= 0 / x > 0 on doubles *)
d_le0(x) == x # NaN /\ x <= 0
d_gt0(x) == x # NaN /\ x > 0

(* x + y and x * y on doubles *)
d_add(x, y) == IF x = NaN \/ y = NaN THEN NaN ELSE x + y
d_mul(x, y) == IF x = NaN \/ y = NaN THEN NaN ELSE x * y

(* calendar days, and time points: a day and a time of day *)
Days == {"2024-01-01", "2024-01-02"}
Ticks == {"00:00", "12:00"}
TimePoints == Days \X Ticks
(* system_clock::now() when the LogManager is constructed: noon of a day *)
Now == <<"2024-01-01", "12:00">>
Nows == {<<d, "12:00">> : d \in Days}
ServingsIn == 0 .. MaxServ

(***************************************************************************)
(* The Food objects of the model.  A shared_ptr<Food> is an object handle; *)
(* two objects may carry the same id (an item removed from the catalog and *)
(* inserted again).  The README example: apple 95 with the keywords fruit  *)
(* and sweet; the scenario of the specification: banana 105, fruit_bowl =  *)
(* {apple x2, banana x1}, and the composites salad and meal, which are     *)
(* constructed while the program runs (their handles are free at first).   *)
(* loadDatabase makes one object for each record of the basic food file    *)
(* (b1, b2, ...) and of the composite food file (c1, c2, ...).             *)
(* A keyword is a sequence of characters.                                  *)
(***************************************************************************)
FoodIds == {"apple", "banana", "fruit_bowl", "salad", "meal"}
LogIds == {"apple", "fruit_bowl"}
LogObjs == {"o_apple", "o_bowl"}
BasicHandles == <<"b1", "b2", "b3">>
CompositeHandles == <<"c1", "c2", "c3">>
CreatedObjs == {"o_salad", "o_salad2", "o_meal"}
LoadedObjs == {BasicHandles[i] : i \in 1 .. 3} \cup {CompositeHandles[i] : i \in 1 .. 3}
Objs == {"o_apple", "o_apple2", "o_banana", "o_bowl"} \cup CreatedObjs \cup LoadedObjs
NoFood == "nullptr"

kwFruit == <<"f", "r", "u", "i", "t">>
kwFRUIT == <<"F", "R", "U", "I", "T">>
kwSweet == <<"s", "w", "e", "e", "t">>
kwFru == <<"f", "r", "u">>
kwBowl == <<"B", "o", "w", "l">>

Pool ==
  [o \in Objs |->
     CASE o = "o_apple"  -> [id |-> "apple", kind |-> "basic", calories |-> 95,
                             components |-> {}, keywords |-> <<kwFruit, kwSweet>>]
       [] o = "o_apple2" -> [id |-> "apple", kind |-> "basic", calories |-> 52,
                             components |-> {}, keywords |-> <<kwFRUIT>>]
       [] o = "o_banana" -> [id |-> "banana", kind |-> "basic", calories |-> 105,
                             components |-> {}, keywords |-> <<kwFruit>>]
       [] o = "o_bowl"   -> [id |-> "fruit_bowl", kind |-> "composite", calories |-> 0,
                             components |-> {<<"o_apple", 2>>, <<"o_banana", 1>>},
                             keywords |-> <<kwBowl, kwSweet>>]
       [] OTHER          -> [id |-> "", kind |-> "free", calories |-> 0,
                             components |-> {}, keywords |-> <<>>]]

VARIABLES
  heap,            \* the Food objects: handle -> id, kind, calories, components,
                   \* keywords
  foods,           \* FoodDatabase::foods: id -> object handle, NoFood if absent
  logEntries,      \* LogManager::logEntries: day -> consumedFoods, NoEntry if absent
  commandHistory,  \* LogManager::commandHistory (the undo stack), top last
  redoStack,       \* LogManager::redoStack, top last
  currentDate,     \* LogManager::currentDate
  lh,              \* the LogHistory object: logs, currentDate, commandHistory,
                   \* currentCommandIndex
  last,            \* history variable: the operation that produced this state
  rt,              \* history variable: the readings of the round trip
  disk             \* the basic food file and the composite food file

vars ==
  <<heap, foods, logEntries, commandHistory, redoStack, currentDate, lh, last, rt,
    disk>>

getId(o) == heap[o].id

RECURSIVE SumSet(_, _)
SumSet(S, f) ==
  IF S = {} THEN 0
  ELSE LET x == CHOOSE y \in S : TRUE IN d_add(f[x], SumSet(S \ {x}, f))

(* a sum over the components that leaves the servings out *)
RECURSIVE getCaloriesPerServing_unweighted(_)
getCaloriesPerServing_unweighted(o) ==
  IF heap[o].kind = "basic" THEN heap[o].calories
  ELSE LET cs == heap[o].components
       IN SumSet(cs, [c \in cs |-> getCaloriesPerServing_unweighted(c[1])])

(* BasicFood::getCaloriesPerServing / CompositeFood::getCaloriesPerServing *)
RECURSIVE getCaloriesPerServing(_)
getCaloriesPerServing(o) ==
  IF heap[o].kind = "basic" THEN heap[o].calories
  ELSE LET cs == heap[o].components
       IN SumSet(cs, [c \in cs |-> d_mul(getCaloriesPerServing(c[1]), c[2])])

NoEntry == <<[food |-> NoFood, servings |-> 0]>>

(* a dateToString that formats with std::gmtime where local time is twelve *)
(* hours behind: local noon is on the next day                             *)
dateToString_gmtime(t) ==
  IF t = <<"2024-01-01", "12:00">> THEN "2024-01-02" ELSE t[1]

(* LogEntry::dateToString: the calendar day of a time point *)
dateToString(t) == t[1]

(* LogEntry::stringToDate: midnight of the day *)
stringToDate(d) == <<d, "00:00">>

(***************************************************************************)
(* LogEntry                                                                *)
(***************************************************************************)
(* index of the first entry of consumedFoods whose food has this id, or 0 *)
FindFood(cf, id) ==
  IF \E i \in 1 .. Len(cf) : getId(cf[i].food) = id
  THEN CHOOSE i \in 1 .. Len(cf) :
         /\ getId(cf[i].food) = id
         /\ \A j \in 1 .. (i - 1) : getId(cf[j].food) # id
  ELSE 0

LogEntry_addFood_dup(cf, food, servings) ==
  IF food = NoFood \/ d_le0(servings) THEN cf
  ELSE Append(cf, [food |-> food, servings |-> servings])

LogEntry_addFood(cf, food, servings) ==
  IF food = NoFood \/ d_le0(servings) THEN cf
  ELSE LET it == FindFood(cf, getId(food))
       IN IF it # 0 THEN [cf EXCEPT ![it].servings = d_add(@, servings)]
          ELSE Append(cf, [food |-> food, servings |-> servings])

(* a removal of one serving: the record goes when none is left *)
LogEntry_removeFood_partial(cf, foodId) ==
  SelectSeq([i \in 1 .. Len(cf) |->
               IF getId(cf[i].food) = foodId
               THEN [cf[i] EXCEPT !.servings = @ - 1] ELSE cf[i]],
            LAMBDA e : e.servings > 0)

LogEntry_removeFood(cf, foodId) ==
  SelectSeq(cf, LAMBDA e : getId(e.food) # foodId)

(* a total that looks every record up in the catalog by its id and leaves  *)
(* out the records of the ids the catalog does not hold                    *)
LogEntry_getTotalCalories_byId(cf) ==
  SumSet(1 .. Len(cf),
         [i \in 1 .. Len(cf) |->
            IF foods[getId(cf[i].food)] = NoFood THEN 0
            ELSE d_mul(getCaloriesPerServing(foods[getId(cf[i].food)]), cf[i].servings)])

LogEntry_getTotalCalories(cf) ==
  SumSet(1 .. Len(cf),
         [i \in 1 .. Len(cf) |->
            d_mul(getCaloriesPerServing(cf[i].food), cf[i].servings)])

(***************************************************************************)
(* LogManager: the log operations, as functions of the log entries         *)
(***************************************************************************)
FoodDatabase_getFood(fd, id) == IF id \in DOMAIN fd THEN fd[id] ELSE NoFood

(* the entries after getLogEntry(date): the day's entry is created if absent *)
getLogEntry(entries, date) ==
  IF entries[dateToString(date)] = NoEntry
  THEN [entries EXCEPT ![dateToString(date)] = <<>>]
  ELSE entries

addFoodToLog_eager(entries, fd, foodId, servings, date) ==
  LET food == FoodDatabase_getFood(fd, foodId)
      created == getLogEntry(entries, date)
  IN IF food = NoFood \/ d_le0(servings)
     THEN [ok |-> FALSE, entries |-> created]
     ELSE [ok |-> TRUE,
           entries |-> [created EXCEPT ![dateToString(date)] =
                           LogEntry_addFood(@, food, servings)]]

addFoodToLog(entries, fd, foodId, servings, date) ==
  LET food == FoodDatabase_getFood(fd, foodId)
  IN IF food = NoFood \/ d_le0(servings)
     THEN [ok |-> FALSE, entries |-> entries]
     ELSE [ok |-> TRUE,
           entries |-> [getLogEntry(entries, date) EXCEPT ![dateToString(date)] =
                           LogEntry_addFood(@, food, servings)]]

removeFoodFromLog(entries, foodId, date) ==
  LET created == getLogEntry(entries, date)
      foodExists == FindFood(created[dateToString(date)], foodId) # 0
  IN IF ~foodExists
     THEN [ok |-> FALSE, entries |-> created]
     ELSE [ok |-> TRUE,
           entries |-> [created EXCEPT ![dateToString(date)] =
                           LogEntry_removeFood(@, foodId)]]

(* LogManager::getConsumedCalories *)
getConsumedCalories(entries, date) ==
  IF entries[dateToString(date)] # NoEntry
  THEN LogEntry_getTotalCalories(entries[dateToString(date)])
  ELSE 0

(* servings of the record of (day, foodId); 0 when there is no record *)
ServingsOf(entries, day, foodId) ==
  IF entries[day] = NoEntry \/ FindFood(entries[day], foodId) = 0 THEN 0
  ELSE entries[day][FindFood(entries[day], foodId)].servings

(* number of records of (day, foodId) *)
RecordCount(entries, day, foodId) ==
  IF entries[day] = NoEntry THEN 0
  ELSE Cardinality({i \in 1 .. Len(entries[day]) : getId(entries[day][i].food) = foodId})

(***************************************************************************)
(* Commands.  A command is a record; `prior' is a history field: the       *)
(* servings the record of (day, foodId) held just before the last execute. *)
(***************************************************************************)

AddFoodCommand(foodId, servings, date) ==
  [kind |-> "Add", foodId |-> foodId, servings |-> servings, date |-> date,
   executed |-> FALSE, prior |-> 0]

(* the constructor reads the day's entry through getLogEntry, which creates it *)
RemoveFoodCommand(entries, foodId, date) ==
  LET created == getLogEntry(entries, date)
      it == FindFood(created[dateToString(date)], foodId)
  IN [cmd |-> [kind |-> "Remove", foodId |-> foodId,
               servings |-> IF it # 0 THEN created[dateToString(date)][it].servings ELSE 1,
               date |-> date, executed |-> FALSE, prior |-> 0],
      entries |-> created]

(* an execute that sets the executed flag whatever the log operation returns *)
Command_execute_assumed(c, entries, fd) ==
  LET r == IF c.kind = "Add"
           THEN addFoodToLog(entries, fd, c.foodId, c.servings, c.date)
           ELSE removeFoodFromLog(entries, c.foodId, c.date)
  IN [cmd |-> [c EXCEPT !.executed = TRUE,
                        !.prior = ServingsOf(entries, dateToString(c.date), c.foodId)],
      entries |-> r.entries]

Command_execute(c, entries, fd) ==
  LET r == IF c.kind = "Add"
           THEN addFoodToLog(entries, fd, c.foodId, c.servings, c.date)
           ELSE removeFoodFromLog(entries, c.foodId, c.date)
  IN [cmd |-> [c EXCEPT !.executed = r.ok,
                        !.prior = ServingsOf(entries, dateToString(c.date), c.foodId)],
      entries |-> r.entries]

AddFoodCommand_undo_unguarded(c, entries, fd) ==
  [cmd |-> [c EXCEPT !.executed = FALSE],
   entries |-> removeFoodFromLog(entries, c.foodId, c.date).entries]

AddFoodCommand_undo(c, entries, fd) ==
  IF c.executed
  THEN [cmd |-> [c EXCEPT !.executed = FALSE],
        entries |-> removeFoodFromLog(entries, c.foodId, c.date).entries]
  ELSE [cmd |-> c, entries |-> entries]

(* an undo of a RemoveFoodCommand that does not test the executed flag *)
RemoveFoodCommand_undo_unguarded(c, entries, fd) ==
  [cmd |-> [c EXCEPT !.executed = FALSE],
   entries |-> addFoodToLog(entries, fd, c.foodId, c.servings, c.date).entries]

RemoveFoodCommand_undo(c, entries, fd) ==
  IF c.executed
  THEN [cmd |-> [c EXCEPT !.executed = FALSE],
        entries |-> addFoodToLog(entries, fd, c.foodId, c.servings, c.date).entries]
  ELSE [cmd |-> c, entries |-> entries]

(* an undo that acts on the day the LogManager is set to at the time *)
Command_undo_today(c, entries, fd) ==
  LET t == [c EXCEPT !.date = currentDate]
  IN IF c.kind = "Add" THEN AddFoodCommand_undo(t, entries, fd)
     ELSE RemoveFoodCommand_undo(t, entries, fd)

Command_undo(c, entries, fd) ==
  IF c.kind = "Add" THEN AddFoodCommand_undo(c, entries, fd)
  ELSE RemoveFoodCommand_undo(c, entries, fd)

canUndo == commandHistory # <<>>
canRedo == redoStack # <<>>

Top(s) == s[Len(s)]
Pop(s) == SubSeq(s, 1, Len(s) - 1)

(* every record of the entries stays within the bound of the model *)
WithinBound(entries) ==
  \A d \in Days : entries[d] # NoEntry =>
     \A i \in 1 .. Len(entries[d]) : entries[d][i].servings <= MaxTotal

(***************************************************************************)
(* The history variable `last' describes the operation that produced the   *)
(* state.  op: the operation; ok: its result (for run and redo, the        *)
(* executed flag of the command; for undo, whether an applied command was  *)
(* reversed); flag: for run, the redo stack held commands before the call, *)
(* for undo and redo, the stack was empty and nothing was done; key: the   *)
(* day and the item of the call; arg: its servings.  stage, before, after  *)
(* follow two scenarios: a run of an Add for an item with no record on the *)
(* day (stage 1; before, after: the day's total before and after the run), *)
(* the undo that directly follows it (stage 2) and the redo that directly  *)
(* follows that (stage 3); and a successful direct record (stage 1;        *)
(* before: the servings held before it, after: the servings recorded)      *)
(* directly followed by a second one for the same day and item (stage 2;   *)
(* after: the sum of the two).  For the catalog operations key holds the   *)
(* id of the item and comps the component list of a create-composite; for  *)
(* a search flag tells searchByAllKeywords from searchByAnyKeyword,        *)
(* keywords is the list searched for and found the set of foods returned.  *)
(***************************************************************************)
NoKey == <<"", "">>
Last(op, ok) ==
  [op |-> op, ok |-> ok, flag |-> FALSE, key |-> NoKey, arg |-> 0,
   stage |-> 0, before |-> 0, after |-> 0, comps |-> <<>>,
   keywords |-> <<>>, found |-> {}]

(***************************************************************************)
(* The log file: a JSON array of day records, each with a date and a list  *)
(* of consumed foods.  LogEntry::fromJson and LogManager::loadLogEntries.  *)
(***************************************************************************)
FileFood(id, servings) == [food_id |-> id, servings |-> servings]
FoodLists ==
  {<<>>,
   <<FileFood("apple", 0)>>,
   <<FileFood("apple", 1)>>,
   <<FileFood("apple", 1), FileFood("apple", 1)>>,
   <<FileFood("apple", 1), FileFood("fruit_bowl", 1)>>,
   <<FileFood("fruit_bowl", 1), FileFood("apple", 1)>>}
DayRecord(d, list) == [date |-> d, consumed_foods |-> list]
LogFiles ==
  {<<>>} \cup {<<DayRecord(d, list)>> : d \in Days, list \in FoodLists}
         \cup {<<DayRecord("2024-01-01", <<FileFood("apple", 1)>>),
                  DayRecord(d, <<FileFood("fruit_bowl", 1)>>)>> : d \in Days}

RECURSIVE LogEntry_fromJson_raw(_, _, _)
LogEntry_fromJson_raw(cf, list, fd) ==
  IF list = <<>> THEN cf
  ELSE LET foodJson == Head(list)
           food == FoodDatabase_getFood(fd, foodJson.food_id)
       IN LogEntry_fromJson_raw(
            IF food # NoFood /\ foodJson.servings > 0
            THEN Append(cf, [food |-> food, servings |-> foodJson.servings]) ELSE cf,
            Tail(list), fd)

RECURSIVE LogEntry_fromJson(_, _, _)
LogEntry_fromJson(cf, list, fd) ==
  IF list = <<>> THEN cf
  ELSE LET foodJson == Head(list)
           food == FoodDatabase_getFood(fd, foodJson.food_id)
       IN LogEntry_fromJson(
            IF food # NoFood THEN LogEntry_addFood(cf, food, foodJson.servings) ELSE cf,
            Tail(list), fd)

(* a load in which the first record of a day stays *)
RECURSIVE loadLogEntriesFrom_first(_, _, _)
loadLogEntriesFrom_first(entries, file, fd) ==
  IF file = <<>> THEN entries
  ELSE loadLogEntriesFrom_first(
         IF entries[dateToString(stringToDate(Head(file).date))] = NoEntry
         THEN [entries EXCEPT ![dateToString(stringToDate(Head(file).date))] =
                 LogEntry_fromJson(<<>>, Head(file).consumed_foods, fd)]
         ELSE entries,
         Tail(file), fd)

RECURSIVE loadLogEntriesFrom(_, _, _)
loadLogEntriesFrom(entries, file, fd) ==
  IF file = <<>> THEN entries
  ELSE loadLogEntriesFrom(
         [entries EXCEPT ![dateToString(stringToDate(Head(file).date))] =
            LogEntry_fromJson(<<>>, Head(file).consumed_foods, fd)],
         Tail(file), fd)

(* logEntries.clear(), then one entry per day record, a later one replacing *)
loadLogEntries(file, fd) ==
  loadLogEntriesFrom([d \in Days |-> NoEntry], file, fd)

(***************************************************************************)
(* LogHistory, the command history of the earlier LogEntry (a map from     *)
(* food id to servings): an indexed vector of commands.                    *)
(***************************************************************************)
NoLog == [nolog |-> 0]

(* LogEntry::addFood(foodId, servings) on the map of food ids to servings *)
LH_addFood(fs, foodId, servings) ==
  LET sum == (IF foodId \in DOMAIN fs THEN fs[foodId] ELSE 0) + servings
  IN IF sum <= 0
     THEN [x \in DOMAIN fs \ {foodId} |-> fs[x]]
     ELSE [x \in DOMAIN fs \cup {foodId} |-> IF x = foodId THEN sum ELSE fs[x]]

(* LogEntry::removeFood(foodId) *)
LH_removeFood(fs, foodId) == [x \in DOMAIN fs \ {foodId} |-> fs[x]]

(* LogHistory::AddFoodCommand / RemoveFoodCommand: execute and unexecute *)
LH_execute(c, logs) ==
  [logs EXCEPT ![c.log] = IF c.kind = "Add" THEN LH_addFood(@, c.foodId, c.servings)
                          ELSE LH_removeFood(@, c.foodId)]

LH_unexecute(c, logs) ==
  [logs EXCEPT ![c.log] = IF c.kind = "Add" THEN LH_addFood(@, c.foodId, 0 - c.servings)
                          ELSE LH_addFood(@, c.foodId, c.servings)]

(* LogHistory::addCommand *)
LH_addCommand(h, c) ==
  [h EXCEPT !.logs = LH_execute(c, h.logs),
            !.commandHistory = Append(SubSeq(h.commandHistory, 1, h.currentCommandIndex), c),
            !.currentCommandIndex = @ + 1]

(* LogHistory::executeCommand("add-food") *)
LH_executeAdd(h, foodId, servings) ==
  LH_addCommand(h, [kind |-> "Add", foodId |-> foodId, servings |-> servings,
                    log |-> h.currentDate])

(* LogHistory::executeCommand("remove-food"): getFoods().at(foodId) throws  *)
(* std::out_of_range when the food is not in the current log, and nothing  *)
(* is added to the history                                                 *)
LH_executeRemove(h, foodId) ==
  IF foodId \in DOMAIN h.logs[h.currentDate]
  THEN LH_addCommand(h, [kind |-> "Remove", foodId |-> foodId,
                         servings |-> h.logs[h.currentDate][foodId],
                         log |-> h.currentDate])
  ELSE h

LH_canUndo(h) == h.currentCommandIndex > 0
LH_canRedo(h) == h.currentCommandIndex < Len(h.commandHistory)

LH_undo(h) ==
  IF LH_canUndo(h)
  THEN [h EXCEPT !.currentCommandIndex = @ - 1,
                 !.logs = LH_unexecute(h.commandHistory[h.currentCommandIndex], h.logs)]
  ELSE h

LH_redo(h) ==
  IF LH_canRedo(h)
  THEN [h EXCEPT !.logs = LH_execute(h.commandHistory[h.currentCommandIndex + 1], h.logs),
                 !.currentCommandIndex = @ + 1]
  ELSE h

(* LogHistory::setCurrentDate *)
LH_setCurrentDate(h, d) ==
  [h EXCEPT !.currentDate = d,
            !.logs = IF h.logs[d] = NoLog THEN [h.logs EXCEPT ![d] = <<>>] ELSE h.logs]

(* LogHistory::LogHistory *)
LH_new(now) ==
  [logs |-> [d \in Days |-> IF d = dateToString(now) THEN <<>> ELSE NoLog],
   currentDate |-> dateToString(now),
   commandHistory |-> <<>>,
   currentCommandIndex |-> 0]

(***************************************************************************)
(* The food files.  FoodDatabase::saveDatabase writes the basic foods to   *)
(* one file and the composite foods to the other, each in the order of the *)
(* std::map foods, that is in the order of the ids.  A record of a basic   *)
(* food is [id, keywords, calories] and one of a composite food is [id,    *)
(* keywords, components], components being a list of [food_id, servings].  *)
(***************************************************************************)
IdOrder == <<"apple", "banana", "fruit_bowl", "meal", "salad">>

IdIndex(id) == CHOOSE i \in 1 .. Len(IdOrder) : IdOrder[i] = id

BasicFood_toJson(hp, o) ==
  [id |-> hp[o].id, keywords |-> hp[o].keywords, calories |-> hp[o].calories]

(* the components in the order of the ids they are written with *)
RECURSIVE ComponentList(_, _)
ComponentList(hp, cs) ==
  IF cs = {} THEN <<>>
  ELSE LET c == CHOOSE x \in cs :
                  \A y \in cs : IdIndex(hp[x[1]].id) <= IdIndex(hp[y[1]].id)
       IN <<[food_id |-> hp[c[1]].id, servings |-> c[2]]>>
            \o ComponentList(hp, cs \ {c})

CompositeFood_toJson(hp, o) ==
  [id |-> hp[o].id, keywords |-> hp[o].keywords,
   components |-> ComponentList(hp, hp[o].components)]

saveBasicFoods(fd, hp) ==
  LET ids == SelectSeq(IdOrder, LAMBDA id : fd[id] # NoFood /\ hp[fd[id]].kind = "basic")
  IN [i \in 1 .. Len(ids) |-> BasicFood_toJson(hp, fd[ids[i]])]

saveCompositeFoods(fd, hp) ==
  LET ids == SelectSeq(IdOrder, LAMBDA id : fd[id] # NoFood /\ hp[fd[id]].kind = "composite")
  IN [i \in 1 .. Len(ids) |-> CompositeFood_toJson(hp, fd[ids[i]])]

saveDatabase(fd, hp) ==
  [basic |-> saveBasicFoods(fd, hp), composite |-> saveCompositeFoods(fd, hp)]

(***************************************************************************)
(* Initial states                                                          *)
(***************************************************************************)
NoReadings == [phase |-> "off", readings |-> <<>>]

ScenarioCatalog ==
  [id \in FoodIds |->
     CASE id = "apple" -> "o_apple"
       [] id = "banana" -> "o_banana"
       [] id = "fruit_bowl" -> "o_bowl"
       [] OTHER -> NoFood]

StartupFiles ==
  {<<>>, <<DayRecord("2024-01-01", <<FileFood("apple", 2)>>)>>}

(* CLI::CLI and CLI::run: the objects are constructed, then the catalog (here *)
(* the catalog of the scenario) and a log file are loaded at start-up         *)
InitLoaded(nows) ==
  /\ heap = Pool
  /\ foods = ScenarioCatalog
  /\ \E file \in StartupFiles : logEntries = loadLogEntries(file, foods)
  /\ commandHistory = <<>>
  /\ redoStack = <<>>
  /\ \E now \in nows : currentDate = now /\ lh = LH_new(now)
  /\ last = Last("init", TRUE)
  /\ disk = saveDatabase(ScenarioCatalog, Pool)

Init == InitLoaded(Nows) /\ rt = NoReadings

InitNow == InitLoaded({Now}) /\ rt = NoReadings

(***************************************************************************)
(* FoodDatabase::addFood / removeFood                                      *)
(***************************************************************************)
(* an addFood that stores the object whether or not the id is present *)
FoodDatabase_addFoodAs_overwrite(fd, id, o) ==
  [ok |-> TRUE, foods |-> [fd EXCEPT ![id] = o]]

(* addFood of the object o, whose getId() is id *)
FoodDatabase_addFoodAs(fd, id, o) ==
  IF fd[id] # NoFood THEN [ok |-> FALSE, foods |-> fd]
  ELSE [ok |-> TRUE, foods |-> [fd EXCEPT ![id] = o]]

(* an addFood that replaces the item stored under the id *)
FoodDatabase_addFood_replace(fd, o) ==
  [ok |-> TRUE, foods |-> [fd EXCEPT ![getId(o)] = o]]

FoodDatabase_addFood(fd, o) == FoodDatabase_addFoodAs(fd, getId(o), o)

FoodDatabase_removeFood(fd, id) ==
  [ok |-> fd[id] # NoFood, foods |-> [fd EXCEPT ![id] = NoFood]]

AddFood(o) ==
  /\ foods' = FoodDatabase_addFood(foods, o).foods
  /\ last' = [Last("addFood", FoodDatabase_addFood(foods, o).ok) EXCEPT
                !.key = <<"", getId(o)>>]
  /\ UNCHANGED <<heap, logEntries, commandHistory, redoStack, currentDate, lh, rt, disk>>

RemoveFood(id) ==
  /\ foods' = FoodDatabase_removeFood(foods, id).foods
  /\ last' = [Last("removeFood", FoodDatabase_removeFood(foods, id).ok) EXCEPT
                !.key = <<"", id>>]
  /\ UNCHANGED <<heap, logEntries, commandHistory, redoStack, currentDate, lh, rt, disk>>

(***************************************************************************)
(* CompositeFood::addComponent and CLI::handleCreateCompositeFood          *)
(***************************************************************************)
(* the components of the composite `id' after addComponent(food, servings) *)
(* (hp: the objects, among them the food to add)                           *)
CompositeFood_addComponentIn(hp, id, components, food, servings) ==
  IF food = NoFood THEN components
  ELSE LET s == IF d_le0(servings) THEN 1 ELSE servings
       IN IF hp[food].id = id THEN components
          ELSE {c \in components : c[1] # food} \cup {<<food, s>>}

CompositeFood_addComponent(id, components, food, servings) ==
  CompositeFood_addComponentIn(heap, id, components, food, servings)

Component(id, servings) == [food_id |-> id, servings |-> servings]

(* the loop of the handler over the component arguments: it returns at the *)
(* first food id that getFood does not find                                *)
RECURSIVE BuildComponents(_, _, _, _)
BuildComponents(id, components, comps, fd) ==
  IF comps = <<>> THEN [ok |-> TRUE, components |-> components]
  ELSE LET food == FoodDatabase_getFood(fd, Head(comps).food_id)
       IN IF food = NoFood THEN [ok |-> FALSE, components |-> components]
          ELSE BuildComponents(
                 id,
                 CompositeFood_addComponent(id, components, food, Head(comps).servings),
                 Tail(comps), fd)

(* the handles of the objects make_shared can return for an id *)
Handles(id) ==
  CASE id = "salad" -> <<"o_salad", "o_salad2">>
    [] id = "meal" -> <<"o_meal">>
    [] OTHER -> <<>>

FreeHandles(id) == {i \in 1 .. Len(Handles(id)) : heap[Handles(id)[i]].kind = "free"}

NewHandle(id) ==
  Handles(id)[CHOOSE i \in FreeHandles(id) : \A j \in FreeHandles(id) : i <= j]

(* [ok, heap, foods] after create-composite <id> <keywords> --components <comps> *)
handleCreateCompositeFood(id, keywords, comps) ==
  LET b == BuildComponents(id, {}, comps, foods)
      h == NewHandle(id)
      r == FoodDatabase_addFoodAs(foods, id, h)
  IN IF keywords = <<>> \/ comps = <<>> \/ ~b.ok
     THEN [ok |-> FALSE, heap |-> heap, foods |-> foods]
     ELSE [ok |-> r.ok,
           heap |-> IF r.ok
                    THEN [heap EXCEPT ![h] = [id |-> id, kind |-> "composite",
                                              calories |-> 0,
                                              components |-> b.components,
                                              keywords |-> keywords]]
                    ELSE heap,
           foods |-> r.foods]

CreateCompositeFood(id, keywords, comps) ==
  LET r == handleCreateCompositeFood(id, keywords, comps)
  IN /\ FreeHandles(id) # {}
     /\ heap' = r.heap
     /\ foods' = r.foods
     /\ last' = [Last("createComposite", r.ok) EXCEPT !.key = <<"", id>>,
                                                      !.comps = comps]
     /\ UNCHANGED <<logEntries, commandHistory, redoStack, currentDate, lh, rt, disk>>

(* BasicFood::setCaloriesPerServing *)
BasicFood_setCaloriesPerServing(o, calories) ==
  [heap EXCEPT ![o].calories = IF calories < 0 THEN 0 ELSE calories]

SetCalories(o, calories) ==
  /\ heap[o].kind = "basic"
  /\ heap' = BasicFood_setCaloriesPerServing(o, calories)
  /\ last' = [Last("setCalories", TRUE) EXCEPT !.key = <<"", getId(o)>>]
  /\ UNCHANGED <<foods, logEntries, commandHistory, redoStack, currentDate, lh, rt, disk>>

(***************************************************************************)
(* FoodDatabase::saveDatabase and FoodDatabase::loadDatabase.  A catalog   *)
(* under load is the pair [foods, heap].                                   *)
(***************************************************************************)
SaveDatabase ==
  /\ disk' = saveDatabase(foods, heap)
  /\ last' = Last("saveDatabase", TRUE)
  /\ UNCHANGED <<heap, foods, logEntries, commandHistory, redoStack, currentDate,
                 lh, rt>>

(* BasicFood::fromJson *)
BasicFood_fromJson(rec) ==
  [id |-> rec.id, kind |-> "basic",
   calories |-> IF rec.calories < 0 THEN 0 ELSE rec.calories,
   components |-> {}, keywords |-> rec.keywords]

(* loadBasicFoods from the i-th record on *)
RECURSIVE loadBasicFoods(_, _, _)
loadBasicFoods(recs, i, st) ==
  IF i > Len(recs) THEN st
  ELSE LET h == BasicHandles[i]
       IN loadBasicFoods(recs, i + 1,
            [foods |-> [st.foods EXCEPT ![recs[i].id] = h],
             heap |-> [st.heap EXCEPT ![h] = BasicFood_fromJson(recs[i])]])

(* the loop of CompositeFood::fromJson over the components of the record *)
RECURSIVE fromJson_components(_, _, _, _)
fromJson_components(st, id, components, comps) ==
  IF comps = <<>> THEN components
  ELSE LET c == Head(comps)
       IN fromJson_components(st, id,
            IF st.foods[c.food_id] # NoFood
            THEN CompositeFood_addComponentIn(st.heap, id, components,
                                              st.foods[c.food_id], c.servings)
            ELSE components,
            Tail(comps))

(* CompositeFood::fromJson(record, foods) *)
CompositeFood_fromJson(rec, st) ==
  [id |-> rec.id, kind |-> "composite", calories |-> 0,
   components |-> fromJson_components(st, rec.id, {}, rec.components),
   keywords |-> rec.keywords]

(* loadCompositeFoods from the i-th record on *)
RECURSIVE loadCompositeFoods(_, _, _)
loadCompositeFoods(recs, i, st) ==
  IF i > Len(recs) THEN st
  ELSE LET h == CompositeHandles[i]
       IN loadCompositeFoods(recs, i + 1,
            [foods |-> [st.foods EXCEPT ![recs[i].id] = h],
             heap |-> [st.heap EXCEPT ![h] = CompositeFood_fromJson(recs[i], st)]])

(* foods.clear(): the objects only the catalog held are destroyed (no      *)
(* LogEntry holds a created or loaded object where the catalog is loaded)  *)
foods_clear(hp) ==
  [foods |-> [id \in FoodIds |-> NoFood],
   heap |-> [o \in Objs |-> IF o \in CreatedObjs \cup LoadedObjs
                            THEN Pool[o] ELSE hp[o]]]

loadDatabase(file, hp) ==
  loadCompositeFoods(file.composite, 1,
    loadBasicFoods(file.basic, 1, foods_clear(hp)))

LoadDatabase ==
  LET st == loadDatabase(disk, heap)
  IN /\ foods' = st.foods
     /\ heap' = st.heap
     /\ last' = Last("loadDatabase", TRUE)
     /\ UNCHANGED <<logEntries, commandHistory, redoStack, currentDate, lh, rt, disk>>

(***************************************************************************)
(* CLI::handleLoadData: loadDatabase, then loadLogs, which resolves the    *)
(* records of the log file against the catalog just loaded.                *)
(***************************************************************************)
HandleLoadData(logFile) ==
  LET st == loadDatabase(disk, heap)
  IN /\ foods' = st.foods
     /\ heap' = st.heap
     /\ logEntries' = loadLogEntries(logFile, foods)'
     /\ last' = Last("loadData", TRUE)
     /\ UNCHANGED <<commandHistory, redoStack, currentDate, lh, rt, disk>>

(***************************************************************************)
(* CompositeFood::addComponent called on an object that exists             *)
(***************************************************************************)
AddComponent(o, food, servings) ==
  /\ heap[o].kind = "composite"
  /\ heap[food].kind # "free"
  /\ heap' = [heap EXCEPT ![o].components =
                 CompositeFood_addComponent(getId(o), @, food, servings)]
  /\ last' = [Last("addComponent", TRUE) EXCEPT !.key = <<"", getId(o)>>,
                                                 !.arg = servings]
  /\ UNCHANGED <<foods, logEntries, commandHistory, redoStack, currentDate, lh, rt,
                 disk>>

(***************************************************************************)
(* LogManager::addFoodToLog / removeFoodFromLog called directly            *)
(***************************************************************************)
RecordConsumption(foodId, servings, date) ==
  LET r == addFoodToLog(logEntries, foods, foodId, servings, date)
  IN /\ WithinBound(r.entries)
     /\ logEntries' = r.entries
     /\ last' = LET key == <<dateToString(date), foodId>>
                     second == last.op = "record" /\ last.stage = 1 /\ last.key = key
                 IN [Last("record", r.ok) EXCEPT
                       !.key = key,
                       !.arg = servings,
                       !.stage = IF ~r.ok THEN 0 ELSE IF second THEN 2 ELSE 1,
                       !.before = IF r.ok /\ second THEN last.before
                                  ELSE ServingsOf(logEntries, key[1], foodId),
                       !.after = IF r.ok /\ second THEN last.arg + servings
                                 ELSE servings]
     /\ UNCHANGED <<heap, foods, commandHistory, redoStack, currentDate, lh, rt, disk>>

RemoveConsumption(foodId, date) ==
  LET r == removeFoodFromLog(logEntries, foodId, date)
  IN /\ logEntries' = r.entries
     /\ last' = [Last("remove", r.ok) EXCEPT !.key = <<dateToString(date), foodId>>]
     /\ UNCHANGED <<heap, foods, commandHistory, redoStack, currentDate, lh, rt, disk>>

(***************************************************************************)
(* LogManager::loadLogs                                                    *)
(***************************************************************************)
LoadLogs(file) ==
  /\ logEntries' = loadLogEntries(file, foods)
  /\ last' = Last("load", TRUE)
  /\ UNCHANGED <<heap, foods, commandHistory, redoStack, currentDate, lh, rt, disk>>

(***************************************************************************)
(* LogManager::setCurrentDate, as CLI::handleSetDate calls it              *)
(***************************************************************************)
SetDateStep(d) ==
  /\ currentDate' = stringToDate(d)
  /\ last' = Last("setDate", TRUE)
  /\ UNCHANGED <<heap, foods, logEntries, commandHistory, redoStack>>

(***************************************************************************)
(* LogManager::executeCommand / undo / redo                                *)
(***************************************************************************)
executeCommand_keepRedo(c, entries) ==
  LET r == Command_execute(c, entries, foods)
  IN [entries |-> r.entries,
      commandHistory |-> Append(commandHistory, r.cmd),
      redoStack |-> redoStack]

(* an executeCommand with a history of one command: an older one is dropped *)
executeCommand_bounded(c, entries) ==
  LET r == Command_execute(c, entries, foods)
  IN [entries |-> r.entries,
      commandHistory |-> <<r.cmd>>,
      redoStack |-> <<>>]

executeCommand(c, entries) ==
  LET r == Command_execute(c, entries, foods)
  IN [entries |-> r.entries,
      commandHistory |-> Append(commandHistory, r.cmd),
      redoStack |-> <<>>]

undo_unguarded ==
  IF canUndo
  THEN LET r == Command_undo(Top(commandHistory), logEntries, foods)
       IN [entries |-> r.entries,
           commandHistory |-> Pop(commandHistory),
           redoStack |-> Append(redoStack, r.cmd)]
  ELSE [entries |-> logEntries, commandHistory |-> commandHistory,
        redoStack |-> <<>>]

undo ==
  IF canUndo
  THEN LET r == Command_undo(Top(commandHistory), logEntries, foods)
       IN [entries |-> r.entries,
           commandHistory |-> Pop(commandHistory),
           redoStack |-> Append(redoStack, r.cmd)]
  ELSE [entries |-> logEntries, commandHistory |-> commandHistory,
        redoStack |-> redoStack]

redo_skip ==
  IF canRedo
  THEN [entries |-> logEntries,
        commandHistory |-> Append(commandHistory, Top(redoStack)),
        redoStack |-> Pop(redoStack)]
  ELSE [entries |-> logEntries, commandHistory |-> commandHistory,
        redoStack |-> redoStack]

(* a redo that leaves the command on the redo stack as well *)
redo_keep ==
  IF canRedo
  THEN LET r == Command_execute(Top(redoStack), logEntries, foods)
       IN [entries |-> r.entries,
           commandHistory |-> Append(commandHistory, r.cmd),
           redoStack |-> redoStack]
  ELSE [entries |-> logEntries, commandHistory |-> commandHistory,
        redoStack |-> redoStack]

redo ==
  IF canRedo
  THEN LET r == Command_execute(Top(redoStack), logEntries, foods)
       IN [entries |-> r.entries,
           commandHistory |-> Append(commandHistory, r.cmd),
           redoStack |-> Pop(redoStack)]
  ELSE [entries |-> logEntries, commandHistory |-> commandHistory,
        redoStack |-> redoStack]

RunStep(c, entries) ==
  LET r == executeCommand(c, entries)
  IN /\ Len(commandHistory) < MaxHist
     /\ WithinBound(r.entries)
     /\ logEntries' = r.entries
     /\ commandHistory' = r.commandHistory
     /\ redoStack' = r.redoStack
     /\ last' = LET k == Top(r.commandHistory)
                 IN [Last("run", k.executed) EXCEPT
                       !.flag = redoStack # <<>>,
                       !.key = <<dateToString(k.date), k.foodId>>,
                       !.arg = k.servings,
                       !.stage = IF k.kind = "Add" /\ k.executed /\ k.prior = 0
                                 THEN 1 ELSE 0,
                       !.before = getConsumedCalories(entries, k.date),
                       !.after = getConsumedCalories(r.entries, k.date)]
     /\ UNCHANGED <<heap, foods, currentDate>>

(* executeCommand of an AddFoodCommand built for the current date, as      *)
(* CLI::handleAddFoodToLog builds it.  The handler refuses servings <= 0   *)
(* before it builds the command; a direct caller of executeCommand does    *)
(* not, and the servings here may be 0.                                    *)
RunAddStep(foodId, servings) ==
  RunStep(AddFoodCommand(foodId, servings, currentDate), logEntries)

(* CLI::handleRemoveFoodFromLog *)
RunRemoveStep(foodId) ==
  LET k == RemoveFoodCommand(logEntries, foodId, currentDate)
  IN RunStep(k.cmd, k.entries)

UndoStep ==
  /\ WithinBound(undo.entries)
  /\ logEntries' = undo.entries
  /\ commandHistory' = undo.commandHistory
  /\ redoStack' = undo.redoStack
  /\ last' = IF canUndo
              THEN LET k == Top(commandHistory)
                   IN [Last("undo", k.executed) EXCEPT
                         !.key = <<dateToString(k.date), k.foodId>>,
                         !.arg = k.servings,
                         !.stage = IF last.op = "run" /\ last.stage = 1 THEN 2 ELSE 0,
                         !.before = last.before,
                         !.after = last.after]
              ELSE [Last("undo", FALSE) EXCEPT !.flag = TRUE]
  /\ UNCHANGED <<heap, foods, currentDate>>

RedoStep ==
  /\ WithinBound(redo.entries)
  /\ logEntries' = redo.entries
  /\ commandHistory' = redo.commandHistory
  /\ redoStack' = redo.redoStack
  /\ last' = IF canRedo
              THEN LET k == Top(redo.commandHistory)
                   IN [Last("redo", k.executed) EXCEPT
                         !.key = <<dateToString(k.date), k.foodId>>,
                         !.arg = k.servings,
                         !.stage = IF last.op = "undo" /\ last.stage = 2 THEN 3 ELSE 0,
                         !.before = last.before,
                         !.after = last.after]
              ELSE [Last("redo", FALSE) EXCEPT !.flag = TRUE]
  /\ UNCHANGED <<heap, foods, currentDate>>

RunAdd(foodId, servings) == RunAddStep(foodId, servings) /\ UNCHANGED <<lh, rt, disk>>
RunRemove(foodId) == RunRemoveStep(foodId) /\ UNCHANGED <<lh, rt, disk>>
Undo == UndoStep /\ UNCHANGED <<lh, rt, disk>>
Redo == RedoStep /\ UNCHANGED <<lh, rt, disk>>

(***************************************************************************)
(* Spec: the command history of the LogManager on the loaded catalog, for  *)
(* the date the LogManager starts with.                                    *)
(***************************************************************************)
Next ==
  \/ \E id \in LogIds, s \in ServingsIn : RunAdd(id, s)
  \/ \E id \in LogIds : RunRemove(id)
  \/ Undo
  \/ Redo

Spec == Init /\ [][Next]_vars

(***************************************************************************)
(* SpecLog: the day log alone, with direct calls of the log operations,    *)
(* catalog changes and loads, and no commands.                             *)
(***************************************************************************)
NextLog ==
  \/ \E o \in LogObjs : AddFood(o)
  \/ \E id \in LogIds : RemoveFood(id)
  \/ \E id \in LogIds, s \in ServingsIn, d \in Days :
        RecordConsumption(id, s, stringToDate(d))
  \/ \E id \in LogIds, d \in Days : RemoveConsumption(id, stringToDate(d))
  \/ \E file \in LogFiles : LoadLogs(file)

SpecLog == InitNow /\ [][NextLog]_vars

(***************************************************************************)
(* SpecAll: every operation on the day log (record, remove, run, undo,     *)
(* redo, load) for one item on the current date, with a history of at most *)
(* MaxAllHist commands.                                                    *)
(***************************************************************************)
AllIds == {"apple"}
AllFiles ==
  {f \in LogFiles : \A i \in 1 .. Len(f) :
     /\ f[i].date = dateToString(Now)
     /\ \A j \in 1 .. Len(f[i].consumed_foods) : f[i].consumed_foods[j].food_id \in AllIds}

NextAll ==
  \/ \E id \in AllIds, s \in ServingsIn : RecordConsumption(id, s, currentDate)
  \/ \E id \in AllIds : RemoveConsumption(id, currentDate)
  \/ \E id \in AllIds, s \in ServingsIn :
        Len(commandHistory) < MaxAllHist /\ RunAdd(id, s)
  \/ \E id \in AllIds :
        Len(commandHistory) < MaxAllHist /\ RunRemove(id)
  \/ Undo
  \/ Redo
  \/ \E file \in AllFiles : LoadLogs(file)

SpecAll == InitNow /\ [][NextAll]_vars

(***************************************************************************)
(* SpecRT: the round trip.  A sequence of runs, then undo until canUndo()  *)
(* is false, then redo until canRedo() is false; rt.readings[k] is the     *)
(* total of every day as read after the k-th run.                          *)
(***************************************************************************)
Totals(entries) == [d \in Days |-> getConsumedCalories(entries, stringToDate(d))]

InitRT == InitLoaded({Now}) /\ rt = [phase |-> "run", readings |-> <<>>]

RT_SetCurrentDate(d) ==
  /\ rt.phase = "run"
  /\ SetDateStep(d)
  /\ UNCHANGED <<lh, rt, disk>>

RT_RunAdd(foodId, servings) ==
  /\ rt.phase = "run"
  /\ RunAddStep(foodId, servings)
  /\ rt' = [rt EXCEPT !.readings = Append(@, Totals(logEntries'))]
  /\ UNCHANGED <<lh, disk>>

RT_RunRemove(foodId) ==
  /\ rt.phase = "run"
  /\ RunRemoveStep(foodId)
  /\ rt' = [rt EXCEPT !.readings = Append(@, Totals(logEntries'))]
  /\ UNCHANGED <<lh, disk>>

RT_Undo ==
  /\ rt.phase \in {"run", "undo"}
  /\ canUndo
  /\ UndoStep
  /\ rt' = [rt EXCEPT !.phase = "undo"]
  /\ UNCHANGED <<lh, disk>>

RT_Redo ==
  /\ (rt.phase = "undo" /\ ~canUndo) \/ rt.phase = "redo"
  /\ canRedo
  /\ RedoStep
  /\ rt' = [rt EXCEPT !.phase = "redo"]
  /\ UNCHANGED <<lh, disk>>

NextRT ==
  \/ \E d \in Days : RT_SetCurrentDate(d)
  \/ \E id \in LogIds, s \in ServingsIn : RT_RunAdd(id, s)
  \/ \E id \in LogIds : RT_RunRemove(id)
  \/ RT_Undo
  \/ RT_Redo

SpecRT == InitRT /\ [][NextRT]_vars

(***************************************************************************)
(* SpecTwin: the LogManager and the LogHistory driven by the same calls    *)
(* for one item on the current date.                                       *)
(***************************************************************************)
T_RunAdd(foodId, servings) ==
  /\ lh.currentCommandIndex < MaxHist
  /\ RunAddStep(foodId, servings)
  /\ lh' = LH_executeAdd(lh, foodId, servings)
  /\ UNCHANGED <<rt, disk>>

T_RunRemove(foodId) ==
  /\ lh.currentCommandIndex < MaxHist
  /\ RunRemoveStep(foodId)
  /\ lh' = LH_executeRemove(lh, foodId)
  /\ UNCHANGED <<rt, disk>>

T_Undo ==
  /\ UndoStep
  /\ lh' = LH_undo(lh)
  /\ UNCHANGED <<rt, disk>>

T_Redo ==
  /\ RedoStep
  /\ lh' = LH_redo(lh)
  /\ UNCHANGED <<rt, disk>>

NextTwin ==
  \/ \E id \in AllIds, s \in ServingsIn : T_RunAdd(id, s)
  \/ \E id \in AllIds : T_RunRemove(id)
  \/ T_Undo
  \/ T_Redo

SpecTwin == Init /\ [][NextTwin]_vars

(***************************************************************************)
(* SpecCat: catalog changes (an item removed and inserted again as another *)
(* object with the same id) between the operations on the day log, for one *)
(* item on the current date.                                               *)
(***************************************************************************)
CatObjs == {"o_apple", "o_apple2"}

NextCat ==
  \/ \E o \in CatObjs : AddFood(o)
  \/ \E id \in AllIds : RemoveFood(id)
  \/ \E id \in AllIds, s \in ServingsIn : RecordConsumption(id, s, currentDate)
  \/ \E id \in AllIds : RemoveConsumption(id, currentDate)
  \/ \E id \in AllIds, s \in ServingsIn :
        Len(commandHistory) < MaxAllHist /\ RunAdd(id, s)
  \/ \E id \in AllIds :
        Len(commandHistory) < MaxAllHist /\ RunRemove(id)
  \/ Undo
  \/ Redo

SpecCat == InitNow /\ [][NextCat]_vars

(***************************************************************************)
(* SpecIns: the catalog under insertions only (add-basic-food and          *)
(* create-composite), with the calories of a basic food set in place.      *)
(* SpecFood: the same with FoodDatabase::removeFood.                       *)
(***************************************************************************)
NewIds == {"salad", "meal"}
NewKeywords == {<<kwFRUIT, kwFru>>}
CompLists ==
  {<<Component("fruit_bowl", 1), Component("salad", 1)>>,
   <<Component("fruit_bowl", 1), Component("apple", 1)>>,
   <<Component("apple", 0)>>,
   <<Component("apple", 1), Component("apple", 2)>>,
   <<Component("salad", 2)>>,
   <<Component("meal", 1)>>}
NewCalories == {60, 0 - 5}

NextIns ==
  \/ \E o \in CatObjs : AddFood(o)
  \/ \E id \in NewIds, kws \in NewKeywords, comps \in CompLists :
        CreateCompositeFood(id, kws, comps)
  \/ \E calories \in NewCalories : SetCalories("o_apple", calories)

SpecIns == InitNow /\ [][NextIns]_vars

RemovableIds == {"apple", "salad"}

NextFood ==
  \/ NextIns
  \/ \E id \in RemovableIds : RemoveFood(id)

SpecFood == InitNow /\ [][NextFood]_vars

(***************************************************************************)
(* Search: matchesKeyword / matchesAllKeywords / matchesAnyKeyword of      *)
(* BasicFood and CompositeFood (the same code in both classes) and         *)
(* FoodDatabase::getAllFoods / searchByAllKeywords / searchByAnyKeyword.   *)
(* A result vector is modelled by the set of its elements.                 *)
(***************************************************************************)
tolower(ch) ==
  CASE ch = "F" -> "f"
    [] ch = "R" -> "r"
    [] ch = "U" -> "u"
    [] ch = "I" -> "i"
    [] ch = "T" -> "t"
    [] ch = "B" -> "b"
    [] OTHER -> ch

(* std::equal(first1, last1, first2, last2, pred) *)
std_equal(a, b) ==
  /\ Len(a) = Len(b)
  /\ \A i \in 1 .. Len(a) : tolower(a[i]) = tolower(b[i])

(* a match on std::equal(first1, last1, first2, pred), which reads the     *)
(* second range only as far as the first one goes                          *)
matchesKeyword_prefix(o, keyword) ==
  IF keyword = <<>> THEN FALSE
  ELSE \E i \in 1 .. Len(heap[o].keywords) :
         /\ Len(keyword) <= Len(heap[o].keywords[i])
         /\ \A j \in 1 .. Len(keyword) :
              tolower(keyword[j]) = tolower(heap[o].keywords[i][j])

matchesKeyword(o, keyword) ==
  IF keyword = <<>> THEN FALSE
  ELSE \E i \in 1 .. Len(heap[o].keywords) : std_equal(keyword, heap[o].keywords[i])

matchesAllKeywords(o, searchKeywords) ==
  IF searchKeywords = <<>> THEN TRUE
  ELSE \A i \in 1 .. Len(searchKeywords) : matchesKeyword(o, searchKeywords[i])

matchesAnyKeyword(o, searchKeywords) ==
  IF searchKeywords = <<>> THEN FALSE
  ELSE \E i \in 1 .. Len(searchKeywords) : matchesKeyword(o, searchKeywords[i])

getAllFoods(fd) == {fd[id] : id \in {i \in FoodIds : fd[i] # NoFood}}

searchByAllKeywords(fd, keywords) ==
  IF keywords = <<>> THEN getAllFoods(fd)
  ELSE {o \in getAllFoods(fd) : matchesAllKeywords(o, keywords)}

searchByAnyKeyword(fd, keywords) ==
  IF keywords = <<>> THEN getAllFoods(fd)
  ELSE {o \in getAllFoods(fd) : matchesAnyKeyword(o, keywords)}

Search(matchAll, keywords) ==
  /\ last' = [Last("search", TRUE) EXCEPT
                !.flag = matchAll,
                !.keywords = keywords,
                !.found = IF matchAll THEN searchByAllKeywords(foods, keywords)
                          ELSE searchByAnyKeyword(foods, keywords)]
  /\ UNCHANGED <<heap, foods, logEntries, commandHistory, redoStack, currentDate,
                 lh, rt, disk>>

(***************************************************************************)
(* SpecSearch: searches of a catalog that grows and shrinks.               *)
(***************************************************************************)
SearchLists ==
  {<<>>, <<kwFruit>>, <<kwFRUIT, kwSweet>>, <<kwFru>>, <<kwSweet, kwBowl>>,
   <<kwFru, kwBowl>>}

NextSearch ==
  \/ \E o \in CatObjs : AddFood(o)
  \/ \E id \in RemovableIds : RemoveFood(id)
  \/ \E kws \in NewKeywords, comps \in CompLists :
        CreateCompositeFood("salad", kws, comps)
  \/ \E matchAll \in BOOLEAN, keywords \in SearchLists : Search(matchAll, keywords)

SpecSearch == InitNow /\ [][NextSearch]_vars

(***************************************************************************)
(* SpecApi: FoodDatabase::addFood of the objects that exist at start-up,   *)
(* FoodDatabase::removeFood and create-composite.                          *)
(***************************************************************************)
NextApi ==
  \/ \E o \in LogObjs : AddFood(o)
  \/ \E id \in LogIds : RemoveFood(id)
  \/ \E kws \in NewKeywords, comps \in CompLists :
        CreateCompositeFood("salad", kws, comps)

SpecApi == InitNow /\ [][NextApi]_vars

(***************************************************************************)
(* SpecDb: create-composite, setCaloriesPerServing, saveDatabase and       *)
(* loadDatabase.                                                           *)
(***************************************************************************)
DbCompLists ==
  {<<Component("fruit_bowl", 1), Component("apple", 1)>>,
   <<Component("salad", 2)>>,
   <<Component("apple", 1), Component("apple", 2)>>}

NextDb ==
  \/ \E id \in NewIds, kws \in NewKeywords, comps \in DbCompLists :
        CreateCompositeFood(id, kws, comps)
  \/ \E o \in {"o_apple", "b1"}, calories \in NewCalories :
        SetCalories(o, calories)
  \/ SaveDatabase
  \/ LoadDatabase

SpecDb == InitNow /\ [][NextDb]_vars

(***************************************************************************)
(* SpecLoad: loadDatabase and saveDatabase with food files that were       *)
(* written outside the program: a file with two records of one id, with a  *)
(* component that no record defines, with a composite that names itself,   *)
(* with a component of zero or negative servings.                          *)
(***************************************************************************)
BasicRecord(id, calories) == [id |-> id, keywords |-> <<kwFruit>>, calories |-> calories]
CompositeRecord(id, comps) == [id |-> id, keywords |-> <<kwSweet>>, components |-> comps]

DbFiles ==
  {[basic |-> <<BasicRecord("apple", 95), BasicRecord("apple", 52)>>,
    composite |-> <<>>],
   [basic |-> <<BasicRecord("apple", 95), BasicRecord("banana", 105)>>,
    composite |-> <<CompositeRecord("fruit_bowl",
                      <<Component("apple", 2), Component("salad", 1)>>)>>],
   [basic |-> <<BasicRecord("apple", 95)>>,
    composite |-> <<CompositeRecord("salad",
                      <<Component("apple", 1), Component("salad", 1)>>)>>],
   [basic |-> <<BasicRecord("apple", 95), BasicRecord("banana", 105)>>,
    composite |-> <<CompositeRecord("fruit_bowl",
                      <<Component("apple", 2), Component("banana", 1)>>),
                    CompositeRecord("fruit_bowl", <<Component("banana", 1)>>)>>],
   [basic |-> <<BasicRecord("apple", 0 - 5), BasicRecord("banana", 105)>>,
    composite |-> <<CompositeRecord("fruit_bowl",
                      <<Component("apple", 0), Component("banana", 0 - 1)>>),
                    CompositeRecord("salad", <<Component("fruit_bowl", 2)>>)>>]}

(* the food files are replaced while the program runs *)
ReplaceFiles(file) ==
  /\ disk' = file
  /\ last' = Last("replaceFiles", TRUE)
  /\ UNCHANGED <<heap, foods, logEntries, commandHistory, redoStack, currentDate,
                 lh, rt>>

NextLoad ==
  \/ \E file \in DbFiles : ReplaceFiles(file)
  \/ LoadDatabase
  \/ SaveDatabase
  \/ \E id \in NewIds, kws \in NewKeywords, comps \in DbCompLists :
        CreateCompositeFood(id, kws, comps)

SpecLoad == InitNow /\ [][NextLoad]_vars

(***************************************************************************)
(* SpecPos: one item on the current date with servings that may be zero or *)
(* negative in every argument and file, and NaN in an argument (a JSON     *)
(* file holds no NaN): record, remove, run, undo, redo, addComponent,      *)
(* create-composite and load-data.                                         *)
(***************************************************************************)
PosServings == {0 - 1, 0, 1, NaN}

PosLogFiles ==
  {<<DayRecord(dateToString(Now), <<FileFood("apple", 0 - 1)>>)>>,
   <<DayRecord(dateToString(Now), <<FileFood("apple", 0), FileFood("apple", 1)>>)>>}

PosDbFiles ==
  {file \in DbFiles :
     \E i \in 1 .. Len(file.composite) :
       \E k \in 1 .. Len(file.composite[i].components) :
         file.composite[i].components[k].servings <= 0}

NextPos ==
  \/ \E s \in PosServings : RecordConsumption("apple", s, currentDate)
  \/ RemoveConsumption("apple", currentDate)
  \/ \E s \in {0, 1} : Len(commandHistory) < MaxAllHist /\ RunAdd("apple", s)
  \/ Len(commandHistory) < MaxAllHist /\ RunRemove("apple")
  \/ Undo
  \/ Redo
  \/ \E s \in {0, NaN} : AddComponent("o_bowl", "o_apple", s)
  \/ \E kws \in NewKeywords :
        CreateCompositeFood("salad", kws, <<Component("apple", 0)>>)
  \/ \E file \in PosDbFiles : ReplaceFiles(file)
  \/ \E file \in PosLogFiles : HandleLoadData(file)

SpecPos == InitNow /\ [][NextPos]_vars

(***************************************************************************)
(* SpecCyc: items are constructed and inserted (create-composite), get     *)
(* components through CompositeFood::addComponent while they are in the    *)
(* catalog, are removed, saved and loaded.                                 *)
(***************************************************************************)
CycIds == {"fruit_bowl", "salad"}

CycCompLists ==
  {<<Component("apple", 1)>>,
   <<Component("fruit_bowl", 1), Component("banana", 2)>>}

(* getFood(id)->addComponent(getFood(cid), servings) *)
AddComponentOf(id, cid, servings) ==
  /\ FoodDatabase_getFood(foods, id) # NoFood
  /\ FoodDatabase_getFood(foods, cid) # NoFood
  /\ AddComponent(FoodDatabase_getFood(foods, id), FoodDatabase_getFood(foods, cid),
                  servings)

NextCyc ==
  \/ \E kws \in NewKeywords, comps \in CycCompLists :
        CreateCompositeFood("salad", kws, comps)
  \/ \E id \in CycIds, cid \in CycIds : AddComponentOf(id, cid, 1)
  \/ \E id \in CycIds : RemoveFood(id)
  \/ SaveDatabase
  \/ LoadDatabase

SpecCyc == InitNow /\ [][NextCyc]_vars

(***************************************************************************)
(* SpecDay: addFoodToLog and removeFoodFromLog at any time of any day.     *)
(* last.found holds the time points of the successive calls that recorded  *)
(* into the record of last.key.                                            *)
(***************************************************************************)
RecordAt(foodId, servings, date) ==
  LET r == addFoodToLog(logEntries, foods, foodId, servings, date)
      key == <<dateToString(date), foodId>>
      again == last.op = "recordAt" /\ last.ok /\ last.key = key
  IN /\ WithinBound(r.entries)
     /\ logEntries' = r.entries
     /\ last' = [Last("recordAt", r.ok) EXCEPT
                   !.key = key,
                   !.arg = servings,
                   !.found = IF r.ok /\ again THEN last.found \cup {date} ELSE {date}]
     /\ UNCHANGED <<heap, foods, commandHistory, redoStack, currentDate, lh, rt, disk>>

NextDay ==
  \/ \E id \in LogIds, s \in ServingsIn, t \in TimePoints : RecordAt(id, s, t)
  \/ \E id \in LogIds, t \in TimePoints : RemoveConsumption(id, t)

SpecDay == InitNow /\ [][NextDay]_vars

(***************************************************************************)
(* SpecFail: the command history with commands whose execute fails: an     *)
(* AddFoodCommand for salad, which the catalog does not hold, or with zero *)
(* servings, and a RemoveFoodCommand for an item the day has no record of. *)
(***************************************************************************)
FailIds == {"apple", "salad"}

NextFail ==
  \/ \E id \in FailIds, s \in ServingsIn : RunAdd(id, s)
  \/ \E id \in FailIds : RunRemove(id)
  \/ Undo
  \/ Redo

SpecFail == InitNow /\ [][NextFail]_vars

(***************************************************************************)
(* SpecDate: the LogManager and the LogHistory with changes of the current *)
(* date between the commands, the undos and the redos.                     *)
(***************************************************************************)
D_SetCurrentDate(d) ==
  /\ SetDateStep(d)
  /\ lh' = LH_setCurrentDate(lh, d)
  /\ UNCHANGED <<rt, disk>>

NextDate ==
  \/ \E d \in Days : D_SetCurrentDate(d)
  \/ \E id \in AllIds : T_RunAdd(id, 1)
  \/ \E id \in AllIds : T_RunRemove(id)
  \/ T_Undo
  \/ T_Redo

SpecDate == InitNow /\ [][NextDate]_vars

(***************************************************************************)
(* SpecReload: loadLogs and load-data between the commands, the undos and  *)
(* the redos, with log files that hold a record of an item the catalog     *)
(* does not hold (salad) and two day records of one day.  last.comps is    *)
(* the file that loadLogs read.                                            *)
(***************************************************************************)
ReloadFiles ==
  {<<>>,
   <<DayRecord("2024-01-01", <<FileFood("salad", 1), FileFood("apple", 2)>>)>>,
   <<DayRecord("2024-01-01", <<FileFood("apple", 1)>>),
     DayRecord("2024-01-02", <<FileFood("banana", 1)>>),
     DayRecord("2024-01-01", <<FileFood("fruit_bowl", 1)>>)>>}

(* a loadLogs that empties the two stacks as well *)
LoadLogsFrom_clearHistory(file) ==
  /\ logEntries' = loadLogEntries(file, foods)
  /\ commandHistory' = <<>>
  /\ redoStack' = <<>>
  /\ last' = [Last("loadFrom", TRUE) EXCEPT !.comps = file]
  /\ UNCHANGED <<heap, foods, currentDate, lh, rt, disk>>

(* LogManager::loadLogs *)
LoadLogsFrom(file) ==
  /\ logEntries' = loadLogEntries(file, foods)
  /\ last' = [Last("loadFrom", TRUE) EXCEPT !.comps = file]
  /\ UNCHANGED <<heap, foods, commandHistory, redoStack, currentDate, lh, rt, disk>>

NextReload ==
  \/ \E id \in AllIds, s \in ServingsIn :
        Len(commandHistory) < MaxAllHist /\ RunAdd(id, s)
  \/ \E id \in AllIds :
        Len(commandHistory) < MaxAllHist /\ RunRemove(id)
  \/ Undo
  \/ Redo
  \/ \E id \in AllIds : RemoveFood(id)
  \/ \E file \in ReloadFiles : LoadLogsFrom(file)
  \/ \E file \in ReloadFiles : HandleLoadData(file)

SpecReload == InitNow /\ [][NextReload]_vars

(***************************************************************************)
(* SpecAgree: the LogManager and the LogHistory driven by the same calls   *)
(* on the current date, starting from an empty log: adds of items of the   *)
(* catalog with positive servings, removes of records that exist, undo and *)
(* redo.                                                                   *)
(***************************************************************************)
A_RunAdd(foodId, servings) ==
  /\ FoodDatabase_getFood(foods, foodId) # NoFood
  /\ servings > 0
  /\ T_RunAdd(foodId, servings)

A_RunRemove(foodId) ==
  /\ ServingsOf(logEntries, dateToString(currentDate), foodId) > 0
  /\ foodId \in DOMAIN lh.logs[lh.currentDate]
  /\ T_RunRemove(foodId)

NextAgree ==
  \/ \E id \in LogIds, s \in 1 .. MaxServ : A_RunAdd(id, s)
  \/ \E id \in LogIds : A_RunRemove(id)
  \/ T_Undo
  \/ T_Redo

(* the start with a log file that holds no record *)
InitEmpty == InitNow /\ logEntries = loadLogEntries(<<>>, foods)

SpecAgree == InitEmpty /\ [][NextAgree]_vars

(***************************************************************************)
(* SpecStale: adds of one item on the current date, undo and redo, while   *)
(* the item is removed from the catalog and inserted again.                *)
(***************************************************************************)
NextStale ==
  \/ AddFood("o_apple")
  \/ RemoveFood("apple")
  \/ RecordConsumption("apple", 1, currentDate)
  \/ Len(commandHistory) < MaxAllHist /\ RunAdd("apple", 1)
  \/ Undo
  \/ Redo

SpecStale == InitNow /\ [][NextStale]_vars

(***************************************************************************)
(*                              The claims                                 *)
(***************************************************************************)
(* the command on top of the undo stack, and the record it is about *)
TopDay == dateToString(Top(commandHistory).date)
TopFood == Top(commandHistory).foodId

(* C1: undo/redo round trip.  After a sequence of runs, undo until nothing *)
(* is left to undo and then redo: after the k-th redo the total of every   *)
(* day is the total read after the k-th run.                               *)
C1_RoundTrip ==
  rt.phase = "redo" => Totals(logEntries) = rt.readings[Len(commandHistory)]

(* C2: the undo of an applied Add command leaves the record of (day, item) *)
(* with the servings it held just before that Add was executed (no record  *)
(* if there was none).                                                     *)
C2_AddUndoExact ==
  [][(last'.op = "undo" /\ canUndo /\ Top(commandHistory).kind = "Add"
        /\ Top(commandHistory).executed)
     => ServingsOf(logEntries', TopDay, TopFood) = Top(commandHistory).prior]_vars

(* C3: the undo of an applied Remove command leaves one record of (day,    *)
(* item), with the servings the record held just before the removal.       *)
C3_RemoveUndoRestores ==
  [][(last'.op = "undo" /\ canUndo /\ Top(commandHistory).kind = "Remove"
        /\ Top(commandHistory).executed)
     => /\ RecordCount(logEntries', TopDay, TopFood) = 1
        /\ ServingsOf(logEntries', TopDay, TopFood) = Top(commandHistory).prior]_vars

(* C4: linear history.  When run(command) returns the undo stack holds the *)
(* command on top of what it held (canUndo is true) and the redo stack is  *)
(* empty (canRedo is false); when LogHistory::addCommand has been called   *)
(* the index equals the length of the history, and the history is the part *)
(* below the old index followed by the new command: the undone commands    *)
(* are discarded.                                                          *)
C4_LinearHistory ==
  [][last'.op = "run"
     => /\ commandHistory' # <<>>
        /\ redoStack' = <<>>
        /\ Pop(commandHistory') = commandHistory
        /\ (lh'.currentCommandIndex # lh.currentCommandIndex
             => /\ lh'.currentCommandIndex = Len(lh'.commandHistory)
                /\ Pop(lh'.commandHistory) =
                      SubSeq(lh.commandHistory, 1, lh.currentCommandIndex))]_vars

(* a run that found commands on the redo stack, in both histories *)
C4_Witness ==
  /\ last.op = "run" /\ last.flag
  /\ canUndo /\ ~canRedo
  /\ lh.currentCommandIndex > 0
  /\ lh.currentCommandIndex = Len(lh.commandHistory)

(* C5: undo() with an empty undo stack and redo() with an empty redo stack *)
(* change nothing: the log entries, both stacks, the catalog and the       *)
(* current date are as before.                                             *)
C5_EmptyStacksNoEffect ==
  [][/\ (last'.op = "undo" /\ ~canUndo)
          => UNCHANGED <<logEntries, commandHistory, redoStack, foods, currentDate>>
     /\ (last'.op = "redo" /\ ~canRedo)
          => UNCHANGED <<logEntries, commandHistory, redoStack, foods, currentDate>>]_vars

(* an undo that found the undo stack empty while the redo stack held commands *)
C5_Witness ==
  last.op = "undo" /\ last.flag /\ ~canUndo /\ canRedo

(* C6: undo on a command whose executed flag is false changes no record    *)
(* and leaves the flag false: for the command LogManager::undo pops (its   *)
(* execute had failed), for every command already undone (the commands of  *)
(* the redo stack) and for every command just constructed.                 *)
C6_UnappliedUndoRejected ==
  [][/\ (last'.op = "undo" /\ canUndo /\ ~Top(commandHistory).executed)
          => /\ logEntries' = logEntries
             /\ ~Top(redoStack').executed
     /\ \A i \in 1 .. Len(redoStack) :
          /\ ~redoStack[i].executed
          /\ Command_undo(redoStack[i], logEntries, foods) =
                [cmd |-> redoStack[i], entries |-> logEntries]
     /\ \A id \in LogIds, s \in ServingsIn :
          LET a == AddFoodCommand(id, s, currentDate)
              k == RemoveFoodCommand(logEntries, id, currentDate)
          IN /\ Command_undo(a, logEntries, foods) = [cmd |-> a, entries |-> logEntries]
             /\ Command_undo(k.cmd, k.entries, foods) = k]_vars

(* an undo that popped a command whose execute had failed *)
C6_Witness ==
  last.op = "undo" /\ ~last.flag /\ ~last.ok /\ canRedo /\ ~Top(redoStack).executed

(* C7: the scenario.  Running an Add of s servings of an item with no      *)
(* record on the day raises the day's total by s times the item's calories *)
(* per serving; the undo that directly follows brings the total back to    *)
(* the value before the run; the redo that directly follows that brings it *)
(* to the value after the run.                                             *)
C7_Scenario ==
  (last.op \in {"run", "undo", "redo"} /\ last.stage >= 1)
  => LET total == getConsumedCalories(logEntries, stringToDate(last.key[1]))
     IN /\ last.stage = 1 =>
             /\ total = last.before
                        + last.arg * getCaloriesPerServing(foods[last.key[2]])
             /\ total = last.after
        /\ last.stage = 2 => total = last.before
        /\ last.stage = 3 => total = last.after

(* one serving of fruit_bowl on 2024-01-01 in an empty log: 295, 0, 295 again *)
C7_Witness ==
  /\ last.op = "redo" /\ last.stage = 3
  /\ last.key = <<"2024-01-01", "fruit_bowl">> /\ last.arg = 1
  /\ last.before = 0 /\ last.after = 295
  /\ getConsumedCalories(logEntries, stringToDate("2024-01-01")) = 295

(* C8: merge on add.  After two successful records of s1 and s2 servings   *)
(* for the same day and item there is one record of (day, item), holding   *)
(* s1 + s2 more than was held before (s1 + s2 when there was no record);   *)
(* and from every state, recording s1 and then s2 gives the same log       *)
(* entries as recording s1 + s2 once.                                      *)
C8_MergeOnAdd ==
  /\ (last.op = "record" /\ last.stage = 2)
       => /\ RecordCount(logEntries, last.key[1], last.key[2]) = 1
          /\ ServingsOf(logEntries, last.key[1], last.key[2]) = last.before + last.after
  /\ \A d \in Days, id \in LogIds, s1 \in 1 .. MaxServ, s2 \in 1 .. MaxServ :
        foods[id] # NoFood =>
          LET t == stringToDate(d)
              one == addFoodToLog(logEntries, foods, id, s1, t).entries
              two == addFoodToLog(one, foods, id, s2, t).entries
              sum == addFoodToLog(logEntries, foods, id, s1 + s2, t).entries
          IN two = sum

(* two records in a row for an item that had no record on the day *)
C8_Witness ==
  /\ last.op = "record" /\ last.stage = 2 /\ last.before = 0
  /\ ServingsOf(logEntries, last.key[1], last.key[2]) = 2 * MaxServ

(* C9: every day entry holds at most one record per item, after any        *)
(* sequence of record, remove, run, undo, redo and load.                   *)
C9_OneRecordPerItem ==
  \A d \in Days, id \in FoodIds : RecordCount(logEntries, d, id) <= 1

(* a load of a day record that lists the same item twice *)
C9_Witness ==
  /\ last.op = "load"
  /\ \E d \in Days : /\ RecordCount(logEntries, d, "apple") = 1
                      /\ ServingsOf(logEntries, d, "apple") = 2

(* C10: addFoodToLog fails exactly when the item is not in the catalog or  *)
(* the servings are not positive, and a failed call leaves the log entries *)
(* as they were: no record changes and no day entry is created.            *)
C10_RecordFailure ==
  [][last'.op = "record"
     => /\ last'.ok <=> (foods[last'.key[2]] # NoFood /\ last'.arg > 0)
        /\ ~last'.ok => logEntries' = logEntries]_vars

(* a failed record of an unknown item for a day that has no entry *)
C10_Witness ==
  /\ last.op = "record" /\ ~last.ok
  /\ foods[last.key[2]] = NoFood /\ last.arg > 0
  /\ logEntries[last.key[1]] = NoEntry

(* C11: removeFoodFromLog for a (day, item) that has no record fails and   *)
(* leaves the log entries as they were, the set of days that have an entry *)
(* included.                                                               *)
C11_RemoveFailure ==
  [][(last'.op = "remove"
        /\ RecordCount(logEntries, last'.key[1], last'.key[2]) = 0)
     => /\ ~last'.ok
        /\ logEntries' = logEntries]_vars

(* the total of a day computed from the catalog: servings times the        *)
(* calories per serving of the item the catalog holds under the record's id *)
CatalogTotal(entries, fd, day) ==
  IF entries[day] = NoEntry THEN 0
  ELSE SumSet(1 .. Len(entries[day]),
              [i \in 1 .. Len(entries[day]) |->
                 getCaloriesPerServing(fd[getId(entries[day][i].food)])
                   * entries[day][i].servings])

(* C12: the total of every day whose recorded items are all in the catalog *)
(* is the sum over the day's records of servings times the calories per    *)
(* serving the catalog now holds under the record's id, and 0 for a day    *)
(* with no records.                                                        *)
C12_TotalFromCatalog ==
  \A d \in Days :
    (logEntries[d] # NoEntry =>
       \A i \in 1 .. Len(logEntries[d]) : foods[getId(logEntries[d][i].food)] # NoFood) =>
       getConsumedCalories(logEntries, stringToDate(d)) = CatalogTotal(logEntries, foods, d)

(***************************************************************************)
(* The value of an item computed top-down: every leaf reached from the     *)
(* item contributes its stored calories times the product of the servings  *)
(* on the path to it.                                                      *)
(***************************************************************************)
RECURSIVE FlatValue(_, _)
FlatValue(o, mult) ==
  IF heap[o].kind = "basic" THEN mult * heap[o].calories
  ELSE LET cs == heap[o].components
       IN SumSet(cs, [c \in cs |-> FlatValue(c[1], mult * c[2])])

Allocated == {o \in Objs : heap[o].kind # "free"}

MaxOf(S) == IF S = {} THEN 0 ELSE CHOOSE x \in S : \A y \in S : y <= x

(* the depth of nesting below an item *)
RECURSIVE Depth(_)
Depth(o) ==
  IF heap[o].kind = "basic" THEN 0
  ELSE 1 + MaxOf({Depth(c[1]) : c \in heap[o].components})

(* C13: the calories per serving of a basic food are its stored value, and *)
(* those of a composite food are the sum over its components of the        *)
(* component's servings times the component's calories per serving, at     *)
(* every depth of nesting and with the values the foods have at the time   *)
(* of the call.                                                            *)
C13_Aggregation ==
  \A o \in Allocated :
    /\ heap[o].kind = "basic" => getCaloriesPerServing(o) = heap[o].calories
    /\ heap[o].kind = "composite" =>
         getCaloriesPerServing(o) =
           SumSet(heap[o].components,
                  [c \in heap[o].components |-> c[2] * getCaloriesPerServing(c[1])])
    /\ getCaloriesPerServing(o) = FlatValue(o, 1)

C13_Witness ==
  /\ last.op = "setCalories"
  /\ foods["meal"] # NoFood
  /\ Depth(foods["meal"]) = 3
  /\ heap["o_apple"].calories = 60
  /\ getCaloriesPerServing(foods["meal"]) = 570

(***************************************************************************)
(* The objects reachable from an item through components, computed as a    *)
(* fixpoint over sets of objects.                                          *)
(***************************************************************************)
ComponentsOf(o) == {c[1] : c \in heap[o].components}

RECURSIVE Closure(_)
Closure(S) ==
  LET n == S \cup UNION {ComponentsOf(o) : o \in S}
  IN IF n = S THEN S ELSE Closure(n)

Descendants(o) == Closure(ComponentsOf(o))

Acyclic ==
  \A id \in FoodIds :
    foods[id] # NoFood =>
      /\ foods[id] \notin Descendants(foods[id])
      /\ \A d \in Descendants(foods[id]) : getId(d) # id

(* a composite `id' with these components would reach itself *)
WouldCycle(id, comps) ==
  \E i \in 1 .. Len(comps) :
    \/ comps[i].food_id = id
    \/ /\ foods[comps[i].food_id] # NoFood
       /\ \E d \in Descendants(foods[comps[i].food_id]) : getId(d) = id

C15_DuplicateId ==
  [][(last'.op \in {"addFood", "createComposite"} /\ foods[last'.key[2]] # NoFood)
      => /\ ~last'.ok
         /\ foods' = foods
         /\ \A id \in FoodIds : foods[id] # NoFood => heap'[foods'[id]] = heap[foods[id]]]_vars

C15_Witness ==
  /\ last.op = "addFood"
  /\ ~last.ok
  /\ last.key[2] = "apple"
  /\ foods["apple"] = "o_apple"
  /\ heap["o_apple"].calories = 95
  /\ heap["o_apple2"].calories = 52

(* the composites the step admits into the catalog *)
Admitted ==
  {id \in FoodIds : /\ foods'[id] # NoFood
                    /\ foods'[id] # foods[id]
                    /\ heap'[foods'[id]].kind = "composite"}

(* C16: the insertion of a composite food fails, and admits nothing into   *)
(* the catalog, when the catalog does not hold the id of one of its        *)
(* components at the time of the insertion.                                *)
C16_UnknownComponent ==
  [][/\ \A id \in Admitted :
          \A c \in heap'[foods'[id]].components : foods[heap'[c[1]].id] # NoFood
     /\ (last'.op = "createComposite"
          /\ \E i \in 1 .. Len(last'.comps) : foods[last'.comps[i].food_id] = NoFood)
         => (~last'.ok /\ foods' = foods)]_vars

(* the ids of the catalog items that hold a component with this id *)
ReferencedBy(id) ==
  {r \in FoodIds : /\ r # id
                   /\ foods[r] # NoFood
                   /\ \E c \in heap[foods[r]].components : getId(c[1]) = id}

(* C17: removeFood(id) fails and leaves the catalog unchanged whenever a   *)
(* component of another catalog item has this id.                          *)
C17_InUse ==
  [][(last'.op = "removeFood" /\ ReferencedBy(last'.key[2]) # {})
      => (~last'.ok /\ foods' = foods)]_vars

(***************************************************************************)
(* The value of an item when a component whose id the catalog does not     *)
(* hold contributes zero.                                                  *)
(***************************************************************************)
Resolved(cs) == {c \in cs : foods[getId(c[1])] # NoFood}

RECURSIVE LenientValue(_)
LenientValue(o) ==
  IF heap[o].kind = "basic" THEN heap[o].calories
  ELSE LET cs == Resolved(heap[o].components)
       IN SumSet(cs, [c \in cs |-> c[2] * LenientValue(c[1])])

(* C18: when the catalog no longer holds the id of a component of a        *)
(* composite food, the calories per serving of the composite are the sum   *)
(* of the weighted values of the other components: the missing component   *)
(* contributes zero.                                                       *)
C18_MissingIsZero ==
  \A id \in FoodIds :
    (foods[id] # NoFood /\ heap[foods[id]].kind = "composite")
      => getCaloriesPerServing(foods[id]) = LenientValue(foods[id])

(* C19: a search with an empty keyword list returns every food of the      *)
(* catalog under searchByAllKeywords and no food under searchByAnyKeyword. *)
C19_EmptySearch ==
  (last.op = "search" /\ last.keywords = <<>>)
    => last.found = IF last.flag THEN getAllFoods(foods) ELSE {}

(* a keyword with its letters in lower case *)
Lower(k) == [i \in 1 .. Len(k) |-> tolower(k[i])]

(* the food carries the keyword, letter case apart *)
Carries(o, keyword) ==
  \E i \in 1 .. Len(heap[o].keywords) : Lower(heap[o].keywords[i]) = Lower(keyword)

ComponentIds(hp, o) == {<<hp[c[1]].id, c[2]>> : c \in hp[o].components}

(* C21: after saveDatabase directly followed by loadDatabase the catalog   *)
(* holds the same ids, every composite has the same component ids with the *)
(* same servings, and every item has the same calories per serving as      *)
(* before, composites of composites included, whatever the ids are.        *)
C21_CatalogRoundTrip ==
  [][(last.op = "saveDatabase" /\ last'.op = "loadDatabase")
      => \A id \in FoodIds :
           /\ (foods'[id] = NoFood) <=> (foods[id] = NoFood)
           /\ foods[id] # NoFood =>
                /\ heap'[foods'[id]].kind = heap[foods[id]].kind
                /\ ComponentIds(heap', foods'[id]) = ComponentIds(heap, foods[id])
                /\ getCaloriesPerServing(foods[id])' = getCaloriesPerServing(foods[id])]_vars

(* the ids the records of the food files define *)
FileIds(file) ==
  {file.basic[i].id : i \in 1 .. Len(file.basic)}
    \cup {file.composite[i].id : i \in 1 .. Len(file.composite)}

(* the i-th basic record repeats the id of an earlier record *)
InvalidBasic(file, i) ==
  \E j \in 1 .. i - 1 : file.basic[j].id = file.basic[i].id

(* the i-th composite record names a component no record defines, names    *)
(* itself, or repeats the id of an earlier record                          *)
InvalidComposite(file, i) ==
  LET rec == file.composite[i]
  IN \/ \E k \in 1 .. Len(rec.components) : rec.components[k].food_id \notin FileIds(file)
     \/ \E k \in 1 .. Len(rec.components) : rec.components[k].food_id = rec.id
     \/ \E j \in 1 .. Len(file.basic) : file.basic[j].id = rec.id
     \/ \E j \in 1 .. i - 1 : file.composite[j].id = rec.id

InCatalog(fd, o) == \E id \in FoodIds : fd[id] = o

(* C22: loadDatabase does not admit the item of a record that names a      *)
(* component that does not resolve, names itself as a component, or        *)
(* repeats the id of an item already loaded: after the load the catalog    *)
(* holds no object made from such a record.                                *)
C22_LoadRejects ==
  [][last'.op = "loadDatabase"
      => /\ \A i \in 1 .. Len(disk.basic) :
              InvalidBasic(disk, i) => ~InCatalog(foods', BasicHandles[i])
         /\ \A i \in 1 .. Len(disk.composite) :
              InvalidComposite(disk, i) => ~InCatalog(foods', CompositeHandles[i])]_vars

(* C23: after n runs in a row from an empty history, canUndo() is true for *)
(* n undos in a row and false after the n-th, and then canRedo() is true   *)
(* for n redos in a row and false after the n-th: the two stacks together  *)
(* always hold the n commands.  (rt.readings has one reading for each      *)
(* run; the undos follow the runs and the redos follow the undos.)         *)
C23_UnlimitedDepth ==
  LET n == Len(rt.readings)
  IN /\ Len(commandHistory) + Len(redoStack) = n
     /\ rt.phase = "run" => (redoStack = <<>> /\ Len(commandHistory) = n)
     /\ canUndo <=> Len(redoStack) < n
     /\ canRedo <=> Len(commandHistory) < n

C23_Witness ==
  /\ rt.phase = "redo"
  /\ last.op = "redo"
  /\ Len(rt.readings) = MaxHist
  /\ Len(commandHistory) = MaxHist
  /\ ~canRedo

(* the same command object: the fields its constructor set *)
SameCommand(a, b) ==
  /\ a.kind = b.kind
  /\ a.foodId = b.foodId
  /\ a.servings = b.servings
  /\ a.date = b.date

(* C24: undo() on a non-empty undo stack moves the top command of the undo *)
(* stack to the top of the redo stack, redo() on a non-empty redo stack    *)
(* moves the top command of the redo stack to the top of the undo stack;   *)
(* both leave the commands below in place, the command moved is no longer  *)
(* on the stack it came from, and the two stacks together hold as many     *)
(* commands as before.                                                     *)
C24_StackMoves ==
  [][/\ (last'.op = "undo" /\ canUndo)
          => /\ commandHistory' = Pop(commandHistory)
             /\ redoStack' # <<>>
             /\ Pop(redoStack') = redoStack
             /\ SameCommand(Top(redoStack'), Top(commandHistory))
     /\ (last'.op = "redo" /\ canRedo)
          => /\ redoStack' = Pop(redoStack)
             /\ commandHistory' # <<>>
             /\ Pop(commandHistory') = commandHistory
             /\ SameCommand(Top(commandHistory'), Top(redoStack))
     /\ last'.op \in {"undo", "redo"}
          => Len(commandHistory') + Len(redoStack')
               = Len(commandHistory) + Len(redoStack)]_vars

C24_Witness ==
  /\ last.op = "redo"
  /\ Len(commandHistory) = 1
  /\ Len(redoStack) = 1
  /\ ~SameCommand(Top(commandHistory), Top(redoStack))

(* C25: every command on the undo stack is applied (its executed flag is   *)
(* true) and every command on the redo stack is unapplied (its executed    *)
(* flag is false).                                                         *)
C25_CommandStates ==
  /\ \A i \in 1 .. Len(commandHistory) : commandHistory[i].executed
  /\ \A i \in 1 .. Len(redoStack) : ~redoStack[i].executed

(* C26: a successful removeFoodFromLog(foodId, date) deletes the whole     *)
(* record of the food on that day, whatever its servings, and leaves the   *)
(* other records of the day and the records of every other day unchanged.  *)
C26_RemoveWholeRecord ==
  [][(last'.op = "remove" /\ last'.ok)
      => LET d == last'.key[1]
             id == last'.key[2]
         IN /\ RecordCount(logEntries, d, id) = 1
            /\ RecordCount(logEntries', d, id) = 0
            /\ Len(logEntries'[d]) = Len(logEntries[d]) - 1
            /\ \A other \in FoodIds \ {id} :
                 /\ RecordCount(logEntries', d, other) = RecordCount(logEntries, d, other)
                 /\ ServingsOf(logEntries', d, other) = ServingsOf(logEntries, d, other)
            /\ \A day \in Days \ {d} : logEntries'[day] = logEntries[day]]_vars

C26_Witness ==
  /\ last.op = "remove"
  /\ last.ok
  /\ last.key = <<"2024-01-01", "apple">>
  /\ ServingsOf(logEntries, "2024-01-01", "fruit_bowl") >= 2
  /\ ServingsOf(logEntries, "2024-01-02", "apple") >= 2

(* C27: every record of the day log and every component of a composite     *)
(* food has servings greater than zero, after any sequence of record,      *)
(* remove, run, undo, redo, addComponent and load, also of files that hold *)
(* zero or negative servings.                                              *)
C27_PositiveServings ==
  /\ \A d \in Days :
       logEntries[d] # NoEntry =>
         \A i \in 1 .. Len(logEntries[d]) : d_gt0(logEntries[d][i].servings)
  /\ \A o \in Allocated : \A c \in heap[o].components : d_gt0(c[2])

(* the descent of getCaloriesPerServing from an object comes back to an    *)
(* object it is already in                                                 *)
Revisits(o) == \E d \in {o} \cup Descendants(o) : d \in Descendants(d)

(* C28: getCaloriesPerServing terminates for every item of the catalog     *)
(* after any sequence of construction, addComponent, insertion, removal,   *)
(* save and load: the descent through the components of an item never      *)
(* comes back to the item it started from, nor to any object on its way.   *)
C28_ValueTerminates ==
  \A id \in FoodIds :
    FoodDatabase_getFood(foods, id) # NoFood =>
      ~Revisits(FoodDatabase_getFood(foods, id))

(* C29: a call of addFoodToLog at a time point records into the entry of   *)
(* the calendar day of that time point and into no other: the servings     *)
(* recorded for one item at different times of one day accumulate in one   *)
(* record, and the entries of the other days stay as they are; two time    *)
(* points address the same entry exactly when they are on the same day.    *)
C29_DayGranularity ==
  [][/\ \A t1 \in TimePoints, t2 \in TimePoints :
          (dateToString(t1) = dateToString(t2)) <=> (t1[1] = t2[1])
     /\ (last'.op = "recordAt" /\ last'.ok) =>
          \A t \in last'.found :
            /\ ServingsOf(logEntries', t[1], last'.key[2])
                 = ServingsOf(logEntries, t[1], last'.key[2]) + last'.arg
            /\ RecordCount(logEntries', t[1], last'.key[2]) = 1
            /\ \A d \in Days \ {t[1]} : logEntries'[d] = logEntries[d]]_vars

C29_Witness ==
  /\ last.op = "recordAt"
  /\ last.ok
  /\ last.found = {<<"2024-01-01", "00:00">>, <<"2024-01-01", "12:00">>}
  /\ ServingsOf(logEntries, "2024-01-01", "apple") = 2
  /\ RecordCount(logEntries, "2024-01-01", "apple") = 1
  /\ ServingsOf(logEntries, "2024-01-02", "apple") = 1

(* the records of the day log: for every day its list of consumed foods,   *)
(* empty when the day has no entry                                         *)
Records(entries) ==
  [d \in Days |-> IF entries[d] = NoEntry THEN <<>> ELSE entries[d]]

(* C30: executeCommand of a command whose execute fails (an add of an item *)
(* the catalog does not hold or of zero servings, a remove of a record     *)
(* that does not exist) pushes the command on the undo stack and empties   *)
(* the redo stack, and changes no record; undo() with such a command on    *)
(* top of the undo stack changes no record and moves the command to the    *)
(* top of the redo stack.                                                  *)
C30_FailedCommand ==
  [][/\ (last'.op = "run" /\ ~last'.ok)
          => /\ commandHistory' # <<>>
             /\ Pop(commandHistory') = commandHistory
             /\ ~Top(commandHistory').executed
             /\ <<dateToString(Top(commandHistory').date), Top(commandHistory').foodId>>
                  = last'.key
             /\ redoStack' = <<>>
             /\ Records(logEntries') = Records(logEntries)
     /\ (last'.op = "undo" /\ canUndo /\ ~Top(commandHistory).executed)
          => /\ Records(logEntries') = Records(logEntries)
             /\ commandHistory' = Pop(commandHistory)
             /\ redoStack' = Append(redoStack, Top(commandHistory))]_vars

C30_Witness ==
  /\ last.op = "undo"
  /\ ~last.ok
  /\ ~last.flag
  /\ Len(commandHistory) = 1
  /\ Top(commandHistory).executed
  /\ Len(redoStack) = 1
  /\ Top(redoStack).kind = "Add"
  /\ Top(redoStack).foodId = "salad"
  /\ ServingsOf(logEntries, "2024-01-01", "apple") = 1

(* the LogHistory command that undo() / redo() of the LogHistory acts on *)
LH_undone(h) == h.commandHistory[h.currentCommandIndex]
LH_redone(h) == h.commandHistory[h.currentCommandIndex + 1]

(* C31: a command is constructed for the current date of that moment, and  *)
(* undo and redo of it change the day log on that day only, whatever the   *)
(* current date is when they are called: the entries of every other day    *)
(* stay as they are, in the LogManager and in the LogHistory.              *)
C31_CapturedDay ==
  [][/\ last'.op = "run" => Top(commandHistory').date = currentDate
     /\ (last'.op = "undo" /\ canUndo)
          => /\ \A d \in Days \ {dateToString(Top(commandHistory).date)} :
                  logEntries'[d] = logEntries[d]
             /\ Top(redoStack').date = Top(commandHistory).date
     /\ (last'.op = "redo" /\ canRedo)
          => /\ \A d \in Days \ {dateToString(Top(redoStack).date)} :
                  logEntries'[d] = logEntries[d]
             /\ Top(commandHistory').date = Top(redoStack).date
     /\ (last'.op = "undo" /\ LH_canUndo(lh))
          => \A d \in Days \ {LH_undone(lh).log} : lh'.logs[d] = lh.logs[d]
     /\ (last'.op = "redo" /\ LH_canRedo(lh))
          => \A d \in Days \ {LH_redone(lh).log} : lh'.logs[d] = lh.logs[d]]_vars

C31_Witness ==
  /\ last.op = "undo"
  /\ last.ok
  /\ last.key = <<"2024-01-01", "apple">>
  /\ dateToString(currentDate) = "2024-01-02"
  /\ ServingsOf(logEntries, "2024-01-01", "apple") = 0
  /\ ServingsOf(logEntries, "2024-01-02", "apple") = 1
  /\ lh.logs["2024-01-02"] # <<>>

(* C32: FoodDatabase::removeFood leaves every record of the day log and    *)
(* the total of every day as they are, also when the day log holds records *)
(* of the item removed.                                                    *)
C32_RemoveKeepsLog ==
  [][last'.op = "removeFood"
       => /\ logEntries' = logEntries
          /\ Totals(logEntries)' = Totals(logEntries)]_vars

C32_Witness ==
  /\ last.op = "removeFood"
  /\ last.ok
  /\ last.key = <<"", "apple">>
  /\ foods["apple"] = NoFood
  /\ ServingsOf(logEntries, "2024-01-01", "apple") = 2
  /\ getConsumedCalories(logEntries, stringToDate("2024-01-01")) = 190

(* C33: redo() of an AddFoodCommand whose item the catalog no longer holds *)
(* creates no record and leaves the day log as it is, and moves the        *)
(* command from the redo stack to the undo stack; the undo() that follows  *)
(* changes no record either.                                               *)
C33_StaleTarget ==
  [][/\ (/\ last'.op = "redo"
         /\ canRedo
         /\ Top(redoStack).kind = "Add"
         /\ FoodDatabase_getFood(foods, Top(redoStack).foodId) = NoFood)
          => /\ logEntries' = logEntries
             /\ redoStack' = Pop(redoStack)
             /\ commandHistory' # <<>>
             /\ Pop(commandHistory') = commandHistory
             /\ SameCommand(Top(commandHistory'), Top(redoStack))
             /\ ~last'.ok
     /\ (last'.op = "undo" /\ last.op = "redo" /\ ~last.ok /\ ~last.flag)
          => /\ logEntries' = logEntries
             /\ commandHistory' = Pop(commandHistory)
             /\ redoStack' # <<>>
             /\ SameCommand(Top(redoStack'), Top(commandHistory))]_vars

C33_Witness ==
  /\ last.op = "undo"
  /\ ~last.ok
  /\ ~last.flag
  /\ last.key = <<"2024-01-01", "apple">>
  /\ last.arg = 1
  /\ foods["apple"] = NoFood
  /\ Top(redoStack).kind = "Add"
  /\ ServingsOf(logEntries, "2024-01-01", "apple") = 1

(***************************************************************************)
(* What a log file says about a day and an item: the last day record of    *)
(* the day in the file, and the sum of the positive servings that record   *)
(* lists for the item.                                                     *)
(***************************************************************************)
LaterRecord(file, d) == MaxOf({i \in 1 .. Len(file) : file[i].date = d})

RECURSIVE FileSum(_, _)
FileSum(list, id) ==
  IF list = <<>> THEN 0
  ELSE (IF Head(list).food_id = id /\ Head(list).servings > 0
        THEN Head(list).servings ELSE 0) + FileSum(Tail(list), id)

FileServings(file, d, id) ==
  IF LaterRecord(file, d) = 0 THEN 0
  ELSE FileSum(file[LaterRecord(file, d)].consumed_foods, id)

(* C34: loadLogs replaces the records of the day log by those of the file  *)
(* (no record of before the load is left) and leaves the undo stack and    *)
(* the redo stack as they are, so canUndo() and canRedo() keep their       *)
(* values; the undo or redo that follows the load acts on the loaded       *)
(* records.                                                                *)
C34_LoadKeepsHistory ==
  [][/\ last'.op \in {"loadFrom", "loadData"}
          => /\ commandHistory' = commandHistory
             /\ redoStack' = redoStack
             /\ canUndo' = canUndo
             /\ canRedo' = canRedo
     /\ last'.op = "loadFrom"
          => \A d \in Days, id \in FoodIds :
               ServingsOf(logEntries', d, id)
                 = IF FoodDatabase_getFood(foods, id) # NoFood
                   THEN FileServings(last'.comps, d, id) ELSE 0
     /\ (last.op = "loadFrom" /\ last'.op = "undo" /\ canUndo)
          => \A d \in Days, id \in FoodIds \ {Top(commandHistory).foodId} :
               ServingsOf(logEntries', d, id)
                 = IF FoodDatabase_getFood(foods, id) # NoFood
                   THEN FileServings(last.comps, d, id) ELSE 0
     /\ (/\ last.op = "loadFrom"
         /\ last'.op = "redo"
         /\ last'.ok
         /\ canRedo
         /\ Top(redoStack).kind = "Add")
          => ServingsOf(logEntries', last'.key[1], last'.key[2])
               = FileServings(last.comps, last'.key[1], last'.key[2])
                   + Top(redoStack).servings]_vars

(* a redo of an add of one serving on top of the two servings of the file *)
C34_Witness ==
  /\ last.op = "redo"
  /\ last.ok
  /\ last.key = <<"2024-01-01", "apple">>
  /\ last.arg = 1
  /\ ServingsOf(logEntries, "2024-01-01", "apple") = 3
  /\ canUndo

(* C35: after loadLogs every record of every day holds the object the      *)
(* catalog held for its id when the file was loaded; a record of the file  *)
(* whose id the catalog does not hold is dropped and the other records of  *)
(* its day are kept; of two day records of the file for one day only the   *)
(* later one is in the day log.                                            *)
C35_LoadResolves ==
  [][/\ last'.op \in {"loadFrom", "loadData"}
          => \A d \in Days :
               logEntries'[d] # NoEntry =>
                 \A i \in 1 .. Len(logEntries'[d]) :
                   FoodDatabase_getFood(foods', heap'[logEntries'[d][i].food].id)
                     = logEntries'[d][i].food
     /\ last'.op = "loadFrom"
          => \A d \in Days :
               /\ (logEntries'[d] # NoEntry) <=> (LaterRecord(last'.comps, d) # 0)
               /\ \A id \in FoodIds :
                    /\ FoodDatabase_getFood(foods, id) = NoFood
                         => RecordCount(logEntries', d, id) = 0
                    /\ FoodDatabase_getFood(foods, id) # NoFood
                         => ServingsOf(logEntries', d, id)
                              = FileServings(last'.comps, d, id)]_vars

(* the file with two day records of the first day, loaded: the apple of    *)
(* the earlier one is gone                                                 *)
C35_Witness ==
  /\ last.op = "loadFrom"
  /\ Len(last.comps) = 3
  /\ RecordCount(logEntries, "2024-01-01", "apple") = 0
  /\ ServingsOf(logEntries, "2024-01-01", "fruit_bowl") = 1
  /\ ServingsOf(logEntries, "2024-01-02", "banana") = 1

(* the servings the LogHistory holds for an item on a day *)
LH_ServingsOf(h, d, id) ==
  IF h.logs[d] = NoLog \/ id \notin DOMAIN h.logs[d] THEN 0 ELSE h.logs[d][id]

(* C36: after every step of a sequence of adds (item of the catalog,       *)
(* positive servings), removes (of a record that exists), undos and redos  *)
(* on one day, from an empty log, the LogManager and the LogHistory hold   *)
(* the same servings for every item.                                       *)
C36_TwinsAgree ==
  \A d \in Days, id \in FoodIds :
    ServingsOf(logEntries, d, id) = LH_ServingsOf(lh, d, id)

=============================================================================
